---- MODULE Spec2Model ----
(***************************************************************************)
(* Transcript parsing of scripts/claude_logs_parser.py: LogEntryParser     *)
(* (one JSON record -> zero or one Message) and ClaudeLogsParser.parse_file *)
(* (a stream of lines -> one Conversation, None, or an escaping exception). *)
(*                                                                         *)
(* Python values are tagged records: the tag k is the Python type.  A text *)
(* is a sequence of one-character strings, so that lower(), strip(), len() *)
(* and the f-strings are computed character by character.  A dict is a     *)
(* function from its keys to values.  An operation that raises returns the *)
(* value Raised, which the callers propagate or catch as the code does.    *)
(***************************************************************************)
EXTENDS Integers, Sequences, FiniteSets, TLC

VARIABLES pc, entry, message, messages, start_time, end_time,
          working_directory, project_path, summary, nread, result,
          doc_content, parser_format, extraction, arg, retval,
          input_dir, srptd_files, file_index, results, output_dir,
          extractions_dir, doc_cards_dir, buckets_dir, clustering_summary,
          enriched_cards_dir, enriched_buckets_dir,
          progress, options, start_from_phase, phase_index, run_results, run_count,
          clusters, assignments, doc_index

vars == <<pc, entry, message, messages, start_time, end_time,
          working_directory, project_path, summary, nread, result,
          doc_content, parser_format, extraction, arg, retval,
          input_dir, srptd_files, file_index, results, output_dir,
          extractions_dir, doc_cards_dir, buckets_dir, clustering_summary,
          enriched_cards_dir, enriched_buckets_dir,
          progress, options, start_from_phase, phase_index, run_results, run_count,
          clusters, assignments, doc_index>>

\* The state of each program, pc apart: a run of one leaves the others alone.
parserVars == <<entry, message, messages, start_time, end_time,
                working_directory, project_path, summary, nread, result>>
layer1Vars == <<doc_content, parser_format, extraction, arg, retval>>
batchVars == <<input_dir, srptd_files, file_index, results, output_dir>>
clusterVars == <<extractions_dir, doc_cards_dir, buckets_dir, clustering_summary,
                 enriched_cards_dir, enriched_buckets_dir>>
pipelineVars == <<progress, options, start_from_phase, phase_index, run_results, run_count>>
incrementalVars == <<clusters, assignments, doc_index>>

(***************************************************************************)
(* Python values                                                           *)
(***************************************************************************)
PyNone == [k |-> "none"]
Raised == [k |-> "raise"]
Str(s) == [k |-> "str", s |-> s]
\* An integer hi * 10^9 + lo: epoch milliseconds exceed 32 bits.
BigNum(hi, lo) == [k |-> "num", hi |-> hi, lo |-> lo]
Num(n) == BigNum(0, n)
Bool(b) == [k |-> "bool", b |-> b]
List(l) == [k |-> "list", l |-> l]
Dict(d) == [k |-> "dict", d |-> d]
DateTime(aware, t) == [k |-> "datetime", aware |-> aware, t |-> t]
EmptyDict == [key \in {} |-> PyNone]

\* bool(v)
Truthy(v) ==
    CASE v.k = "none" -> FALSE
      [] v.k = "str" -> Len(v.s) > 0
      [] v.k = "num" -> v.hi # 0 \/ v.lo # 0
      [] v.k = "bool" -> v.b
      [] v.k = "list" -> Len(v.l) > 0
      [] v.k = "dict" -> DOMAIN v.d # {}
      [] OTHER -> TRUE

\* a or b
PyOr(a, b) == IF Truthy(a) THEN a ELSE b

\* d.get(key, default) on the function d of a dict
Get(d, key, default) == IF key \in DOMAIN d THEN d[key] ELSE default

(***************************************************************************)
(* Texts                                                                   *)
(***************************************************************************)
S_empty == <<>>
S_user == <<"u", "s", "e", "r">>
S_human == <<"h", "u", "m", "a", "n">>
S_assistant == <<"a", "s", "s", "i", "s", "t", "a", "n", "t">>
S_ai == <<"a", "i">>
S_system == <<"s", "y", "s", "t", "e", "m">>
S_tool_use == <<"t", "o", "o", "l", "_", "u", "s", "e">>
S_tool_result == <<"t", "o", "o", "l", "_", "r", "e", "s", "u", "l", "t">>
S_summary == <<"s", "u", "m", "m", "a", "r", "y">>
S_init == <<"i", "n", "i", "t">>
S_text == <<"t", "e", "x", "t">>
S_unknown == <<"u", "n", "k", "n", "o", "w", "n">>
S_ToolColon == <<"T", "o", "o", "l", ":", " ">>
S_BracketTool == <<"[", "T", "o", "o", "l", ":", " ">>
S_Bracket == <<"]">>
S_None == <<"N", "o", "n", "e">>
S_UtcOffset == <<"+", "0", "0", ":", "0", "0">>
S_newline == <<"\n">>
UpperChars == <<"A", "B", "C", "D", "E", "F", "G", "H", "I", "J", "K", "L", "M", "N", "O", "P", "Q", "R", "S", "T", "U", "V", "W", "X", "Y", "Z">>
LowerChars == <<"a", "b", "c", "d", "e", "f", "g", "h", "i", "j", "k", "l", "m", "n", "o", "p", "q", "r", "s", "t", "u", "v", "w", "x", "y", "z">>
Digits == <<"0", "1", "2", "3", "4", "5", "6", "7", "8", "9">>
\* The characters str.isspace() holds of; U00A0 is the no-break space.
Whitespace == {" ", "\n", "\t", "\r", "U00A0"}

\* The position of c in the sequence tbl, 0 when absent.
IndexOf(tbl, c) == IF \E i \in 1..Len(tbl) : tbl[i] = c THEN CHOOSE i \in 1..Len(tbl) : tbl[i] = c ELSE 0

LowerChar(c) == IF IndexOf(UpperChars, c) > 0 THEN LowerChars[IndexOf(UpperChars, c)] ELSE c

\* The lowercase of one character.  A text names a character outside ASCII
\* by its code point: U00C9 and U00E9 are the capital and the small e with
\* acute, U0130 the capital I with dot above, whose lowercase is two
\* characters, i and the combining dot above U0307.
LowerOf(c) ==
    IF c = "U00C9" THEN <<"U00E9">>
    ELSE IF c = "U0130" THEN <<"i", "U0307">>
    ELSE <<LowerChar(c)>>

\* str.lower()
RECURSIVE Lower(_)
Lower(s) ==
    IF \A i \in 1..Len(s) : Len(LowerOf(s[i])) = 1 THEN [i \in 1..Len(s) |-> LowerOf(s[i])[1]]
    ELSE LET i == CHOOSE i \in 1..Len(s) : Len(LowerOf(s[i])) # 1 /\ \A j \in 1..(i - 1) : Len(LowerOf(s[j])) = 1
         IN  Lower(SubSeq(s, 1, i - 1)) \o LowerOf(s[i]) \o Lower(SubSeq(s, i + 1, Len(s)))

RECURSIVE LStrip(_)
LStrip(s) == IF s # <<>> /\ Head(s) \in Whitespace THEN LStrip(Tail(s)) ELSE s

RECURSIVE RStrip(_)
RStrip(s) == IF s # <<>> /\ s[Len(s)] \in Whitespace THEN RStrip(SubSeq(s, 1, Len(s) - 1)) ELSE s

\* str.strip()
Strip(s) == RStrip(LStrip(s))

\* sep.join(parts)
RECURSIVE Join(_, _)
Join(sep, parts) ==
    IF parts = <<>> THEN <<>>
    ELSE IF Len(parts) = 1 THEN parts[1]
    ELSE parts[1] \o sep \o Join(sep, Tail(parts))

\* str(v) as an f-string renders it, for the values the records carry.
PyStr(v) ==
    CASE v.k = "str" -> v.s
      [] v.k = "none" -> S_None
      [] v.k = "num" /\ v.hi = 0 /\ v.lo \in 0..9 -> <<Digits[v.lo + 1]>>
      [] OTHER -> <<"?">>

\* s.replace("Z", "+00:00")
RECURSIVE ReplaceZ(_)
ReplaceZ(s) ==
    IF s = <<>> THEN <<>>
    ELSE (IF Head(s) = "Z" THEN S_UtcOffset ELSE <<Head(s)>>) \o ReplaceZ(Tail(s))

(***************************************************************************)
(* base64.b64decode(text).decode('utf-8'), claude_logs_parser.py:310.      *)
(* Characters outside the alphabet are discarded, the padding is checked,  *)
(* each four sextets give three bytes.  The texts decoded here are ASCII   *)
(* and carry "=" only at their end.                                        *)
(***************************************************************************)
B64Alphabet == <<"A", "B", "C", "D", "E", "F", "G", "H", "I", "J", "K", "L", "M", "N", "O", "P", "Q", "R", "S", "T", "U", "V", "W", "X", "Y", "Z", "a", "b", "c", "d", "e", "f", "g", "h", "i", "j", "k", "l", "m", "n", "o", "p", "q", "r", "s", "t", "u", "v", "w", "x", "y", "z", "0", "1", "2", "3", "4", "5", "6", "7", "8", "9", "+", "/">>
AsciiPrintable == <<" ", "!", "QUOTE", "#", "$", "%", "&", "'", "(", ")", "*", "+", ",", "-", ".", "/", "0", "1", "2", "3", "4", "5", "6", "7", "8", "9", ":", ";", "<", "=", ">", "?", "@", "A", "B", "C", "D", "E", "F", "G", "H", "I", "J", "K", "L", "M", "N", "O", "P", "Q", "R", "S", "T", "U", "V", "W", "X", "Y", "Z", "[", "BACKSLASH", "]", "^", "_", "BACKTICK", "a", "b", "c", "d", "e", "f", "g", "h", "i", "j", "k", "l", "m", "n", "o", "p", "q", "r", "s", "t", "u", "v", "w", "x", "y", "z", "{", "|", "}", "~">>

RECURSIVE TrailingPads(_)
TrailingPads(s) == IF s # <<>> /\ s[Len(s)] = "=" THEN 1 + TrailingPads(SubSeq(s, 1, Len(s) - 1)) ELSE 0

\* The sextets of the alphabet characters of s, the other characters dropped.
RECURSIVE Sextets(_)
Sextets(s) ==
    IF s = <<>> THEN <<>>
    ELSE (IF IndexOf(B64Alphabet, Head(s)) > 0 THEN <<IndexOf(B64Alphabet, Head(s)) - 1>> ELSE <<>>) \o Sextets(Tail(s))

RECURSIVE DecodeQuads(_)
DecodeQuads(q) ==
    IF Len(q) < 2 THEN <<>>
    ELSE IF Len(q) = 2 THEN <<q[1] * 4 + q[2] \div 16>>
    ELSE IF Len(q) = 3 THEN <<q[1] * 4 + q[2] \div 16, (q[2] % 16) * 16 + q[3] \div 4>>
    ELSE <<q[1] * 4 + q[2] \div 16, (q[2] % 16) * 16 + q[3] \div 4, (q[3] % 4) * 64 + q[4]>>
         \o DecodeQuads(SubSeq(q, 5, Len(q)))

B64PaddingOk(n, pads) ==
    CASE n % 4 = 0 -> TRUE
      [] n % 4 = 1 -> FALSE
      [] n % 4 = 2 -> pads >= 2
      [] n % 4 = 3 -> pads >= 1

ByteIsAscii(b) == b = 10 \/ b \in 32..126
AsciiChar(b) == IF b = 10 THEN "\n" ELSE AsciiPrintable[b - 31]

\* The decoded text as a str value, or Raised (TypeError, binascii.Error,
\* UnicodeDecodeError).
B64DecodeText(v) ==
    IF v.k # "str" THEN Raised
    ELSE LET q == Sextets(v.s)
             bytes == DecodeQuads(q)
         IN  IF ~B64PaddingOk(Len(q), TrailingPads(v.s)) THEN Raised
             ELSE IF \E i \in 1..Len(bytes) : ~ByteIsAscii(bytes[i]) THEN Raised
             ELSE Str([i \in 1..Len(bytes) |-> AsciiChar(bytes[i])])

(***************************************************************************)
(* Timestamps, claude_logs_parser.py:358-367.  A datetime is naive or      *)
(* aware and holds its seconds since the epoch; the local zone is UTC.     *)
(***************************************************************************)
IsoPrefix == <<"2", "0", "2", "4", "-", "0", "1", "-", "0", "1", "T", "0", "0", ":", "0", "0", ":", "0">>
\* 2024-01-01T00:00:00 in epoch seconds
IsoBase == 1704067 * 1000 + 200
\* 9999-12-31T23:59:59 in epoch seconds is 253402300799: hi = 253
MaxYearHi == 253 + 0

\* datetime.fromisoformat(s) for the texts 2024-01-01T00:00:0d with or
\* without a +00:00 offset; every other text of the model is not ISO-8601.
FromIsoFormat(s) ==
    IF /\ Len(s) >= Len(IsoPrefix) + 1
       /\ SubSeq(s, 1, Len(IsoPrefix)) = IsoPrefix
       /\ IndexOf(Digits, s[Len(IsoPrefix) + 1]) > 0
       /\ SubSeq(s, Len(IsoPrefix) + 2, Len(s)) \in {<<>>, S_UtcOffset}
    THEN DateTime(Len(s) > Len(IsoPrefix) + 1, IsoBase + IndexOf(Digits, s[Len(IsoPrefix) + 1]) - 1)
    ELSE Raised

\* ts > 1e12
AboveMsThreshold(ts) == ts.k = "num" /\ (ts.hi > 1000 \/ (ts.hi = 1000 /\ ts.lo > 0))

\* datetime.fromtimestamp(ts / 1000 if ts > 1e12 else ts): a naive local
\* time, ValueError beyond year 9999.  Whole seconds are kept.
FromTimestamp(ts) ==
    CASE ts.k = "bool" -> DateTime(FALSE, IF ts.b THEN 1 ELSE 0)
      [] ts.k = "num" /\ AboveMsThreshold(ts) /\ ts.hi <= 2000 -> DateTime(FALSE, ts.hi * 1000000 + ts.lo \div 1000)
      [] ts.k = "num" /\ ~AboveMsThreshold(ts) /\ ts.hi > MaxYearHi -> Raised
      [] ts.k = "num" /\ ~AboveMsThreshold(ts) /\ ts.hi <= 1 -> DateTime(FALSE, ts.hi * 1000000000 + ts.lo)

\* The timestamp of _create_message: failures leave it unset.
ParseTimestamp(e) ==
    LET ts == Get(e, "timestamp", PyNone)
    IN  IF ~Truthy(ts) THEN PyNone
        ELSE IF ts.k \in {"num", "bool"}
             THEN (IF FromTimestamp(ts) = Raised THEN PyNone ELSE FromTimestamp(ts))
        ELSE IF ts.k = "str"
             THEN (IF FromIsoFormat(ReplaceZ(ts.s)) = Raised THEN PyNone ELSE FromIsoFormat(ReplaceZ(ts.s)))
        ELSE PyNone

\* len(content.strip()) > 10
SubstantialLen == 10

(***************************************************************************)
(* LogEntryParser                                                          *)
(***************************************************************************)
\* MessageRole members are named by their member names.
MESSAGE_TYPES == (S_user :> "USER") @@ (S_assistant :> "ASSISTANT") @@ (S_system :> "SYSTEM") @@ (S_tool_use :> "TOOL") @@ (S_tool_result :> "TOOL_RESULT")

ToolUse(name, id, parameters) == [tool_name |-> name, tool_id |-> id, parameters |-> parameters, result |-> PyNone, success |-> TRUE, timestamp |-> PyNone]

Message(role, content, timestamp, tool_uses, thinking, token_count, raw) == [k |-> "message", role |-> role, content |-> content, timestamp |-> timestamp, tool_uses |-> tool_uses, thinking |-> thinking, token_count |-> token_count, raw_data |-> raw]

\* needle in haystack
Contains(haystack, needle) == \E i \in 0..(Len(haystack) - Len(needle)) : SubSeq(haystack, i + 1, i + Len(needle)) = needle

\* The parts list built by the loop over a content list.
RECURSIVE ContentParts(_)
ContentParts(items) ==
    IF items = <<>> THEN <<>>
    ELSE LET item == Head(items)
             part == IF item.k = "str" THEN <<item>>
                     ELSE IF item.k = "dict" /\ Get(item.d, "type", PyNone) = Str(S_text)
                          THEN <<Get(item.d, "text", Str(S_empty))>>
                     ELSE IF item.k = "dict" /\ Get(item.d, "type", PyNone) = Str(S_tool_use)
                          THEN <<Str(S_BracketTool \o PyStr(Get(item.d, "name", Str(S_unknown))) \o S_Bracket)>>
                     ELSE <<>>
         IN  part \o ContentParts(Tail(items))

\* "\n".join(parts): TypeError when a part is no str.
JoinParts(parts) ==
    IF \E i \in 1..Len(parts) : parts[i].k # "str" THEN Raised
    ELSE Str(Join(S_newline, [i \in 1..Len(parts) |-> parts[i].s]))

ExtractContent(e) ==
    LET content == Get(e, "content", PyNone)
        b64 == Get(e, "content_base64", PyNone)
    IN  IF content.k = "str" THEN content
        ELSE IF content.k = "list" THEN JoinParts(ContentParts(content.l))
        ELSE IF Truthy(b64) /\ B64DecodeText(b64) # Raised THEN B64DecodeText(b64)
        ELSE IF Get(e, "message", PyNone).k = "str" THEN e["message"]
        ELSE IF Truthy(Get(e, "text", PyNone)) THEN e["text"]
        ELSE Str(S_empty)

\* The ToolUses of the tool_use parts of a content list.
RECURSIVE ContentToolUses(_)
ContentToolUses(items) ==
    IF items = <<>> THEN <<>>
    ELSE (IF Head(items).k = "dict" /\ Get(Head(items).d, "type", PyNone) = Str(S_tool_use)
          THEN <<ToolUse(Get(Head(items).d, "name", Str(S_unknown)), Get(Head(items).d, "id", Str(S_empty)), Get(Head(items).d, "input", Dict(EmptyDict)))>>
          ELSE <<>>) \o ContentToolUses(Tail(items))

\* One ToolUse of the tool_uses array.
ArrayToolUse(tu) == ToolUse(Get(tu.d, "name", Get(tu.d, "tool_name", Str(S_unknown))), Get(tu.d, "id", Get(tu.d, "tool_id", Str(S_empty))), Get(tu.d, "input", Get(tu.d, "parameters", Dict(EmptyDict))))

\* A list value holding the ToolUses, or Raised: a truthy tool_uses that is
\* no list of dicts fails in the loop (TypeError, AttributeError).
ExtractToolUses(e) ==
    LET content == Get(e, "content", PyNone)
        arr == Get(e, "tool_uses", PyNone)
        fromContent == IF content.k = "list" THEN ContentToolUses(content.l) ELSE <<>>
    IN  IF ~Truthy(arr) THEN List(fromContent)
        ELSE IF arr.k # "list" THEN Raised
        ELSE IF \E i \in 1..Len(arr.l) : arr.l[i].k # "dict" THEN Raised
        ELSE List(fromContent \o [i \in 1..Len(arr.l) |-> ArrayToolUse(arr.l[i])])

\* entry.get("token_count") or entry.get("usage", {}).get("output_tokens")
TokenCount(e) ==
    LET usage == Get(e, "usage", Dict(EmptyDict))
    IN  IF Truthy(Get(e, "token_count", PyNone)) THEN e["token_count"]
        ELSE IF usage.k # "dict" THEN Raised
        ELSE Get(usage.d, "output_tokens", PyNone)

\* _create_message; content and tool_uses are evaluated by the caller and
\* an exception raised there or here leaves the call.
CreateMessage(role, content, e, tool_uses, thinking) ==
    IF content = Raised \/ tool_uses = Raised \/ TokenCount(e) = Raised THEN Raised
    ELSE Message(role, content, ParseTimestamp(e), tool_uses.l, thinking, TokenCount(e), Dict(e))

ParseTypedEntry(e) ==
    LET t == Get(e, "type", Str(S_empty))
        entry_type == Lower(t.s)
    IN  IF t.k # "str" THEN Raised
        ELSE IF entry_type \in {S_human, S_user}
             THEN CreateMessage("USER", ExtractContent(e), e, List(<<>>), PyNone)
        ELSE IF entry_type \in {S_assistant, S_ai}
             THEN CreateMessage("ASSISTANT", ExtractContent(e), e, ExtractToolUses(e), Get(e, "thinking", PyNone))
        ELSE IF entry_type = S_tool_use
             THEN LET tool_use == ToolUse(Get(e, "name", Get(e, "tool_name", Str(S_unknown))), Get(e, "id", Get(e, "tool_id", Str(S_empty))), Get(e, "input", Get(e, "parameters", Dict(EmptyDict))))
                  IN  CreateMessage("TOOL", Str(S_ToolColon \o PyStr(tool_use.tool_name)), e, List(<<tool_use>>), PyNone)
        ELSE IF entry_type = S_tool_result
             THEN CreateMessage("TOOL_RESULT", ExtractContent(e), e, List(<<>>), PyNone)
        ELSE PyNone

ParseRoleEntry(e) ==
    LET r == Get(e, "role", Str(S_empty))
        role_str == Lower(r.s)
    IN  IF r.k # "str" THEN Raised
        ELSE IF role_str \in DOMAIN MESSAGE_TYPES
             THEN CreateMessage(MESSAGE_TYPES[role_str], ExtractContent(e), e, ExtractToolUses(e), Get(e, "thinking", PyNone))
        ELSE PyNone

ParseContentEntry(e) ==
    LET content == ExtractContent(e)
        role == IF Truthy(Get(e, "isAssistant", PyNone)) \/ Contains(Lower(PyStr(Get(e, "sender", Str(S_empty)))), S_assistant)
                THEN "ASSISTANT" ELSE "USER"
    IN  IF content = Raised THEN Raised
        ELSE IF Truthy(content) THEN CreateMessage(role, content, e, List(<<>>), PyNone)
        ELSE PyNone

RECURSIVE ParseEntry(_)
\* Mutant of ParseEntry: the role key is looked at before the type key.
ParseEntryRoleFirst(e) ==
    LET nested == Get(e, "message", Dict(EmptyDict))
        r == IF "role" \in DOMAIN e THEN ParseRoleEntry(e)
             ELSE IF "type" \in DOMAIN e THEN ParseTypedEntry(e)
             ELSE IF "message" \in DOMAIN e
                  THEN (IF nested.k = "dict" THEN ParseEntry(nested.d)
                        ELSE IF nested.k = "str" THEN CreateMessage("USER", nested, e, List(<<>>), PyNone)
                        ELSE PyNone)
             ELSE IF "content" \in DOMAIN e THEN ParseContentEntry(e)
             ELSE PyNone
    IN  IF r = Raised THEN PyNone ELSE r

\* parse_entry with _parse_nested_message, which calls it back: a Message
\* or PyNone; every exception is caught and gives PyNone.
ParseEntry(e) ==
    LET nested == Get(e, "message", Dict(EmptyDict))
        r == IF "type" \in DOMAIN e THEN ParseTypedEntry(e)
             ELSE IF "role" \in DOMAIN e THEN ParseRoleEntry(e)
             ELSE IF "message" \in DOMAIN e
                  THEN (IF nested.k = "dict" THEN ParseEntry(nested.d)
                        ELSE IF nested.k = "str" THEN CreateMessage("USER", nested, e, List(<<>>), PyNone)
                        ELSE PyNone)
             ELSE IF "content" \in DOMAIN e THEN ParseContentEntry(e)
             ELSE PyNone
    IN  IF r = Raised THEN PyNone ELSE r

\* Mutant of IsSubstantial: the length of the content as it stands, not trimmed.
IsSubstantialNoStrip(m) ==
    IF ~Truthy(m.content) THEN Bool(m.tool_uses # <<>>)
    ELSE IF m.content.k # "str" THEN Raised
    ELSE Bool(Len(m.content.s) > SubstantialLen \/ m.tool_uses # <<>>)

\* Message.is_substantial, or Raised: strip() of a content that is no str.
IsSubstantial(m) ==
    IF ~Truthy(m.content) THEN Bool(m.tool_uses # <<>>)
    ELSE IF m.content.k # "str" THEN Raised
    ELSE Bool(Len(Strip(m.content.s)) > SubstantialLen \/ m.tool_uses # <<>>)

(***************************************************************************)
(* ClaudeLogsParser.parse_file                                             *)
(***************************************************************************)
\* Lines read from one file.
MaxLines == 3

Pending == [k |-> "pending"]
BlankLine == [k |-> "blank"]
BadJsonLine == [k |-> "badjson"]

Conversation(pp, wd, st, et, msgs, sm, tokens) == [k |-> "conversation", session_id |-> "session", project_path |-> pp, working_directory |-> wd, start_time |-> st, end_time |-> et, messages |-> msgs, summary |-> sm, total_tokens |-> tokens, source_file |-> "session.jsonl"]

\* a < b on datetimes: TypeError between a naive and an aware one.
DateTimeLess(a, b) == IF a.aware # b.aware THEN Raised ELSE Bool(a.t < b.t)

\* Lines 512-513: the start_time after a retained Message with timestamp ts.
TrackStart(st, ts) ==
    IF st = PyNone THEN ts
    ELSE IF DateTimeLess(ts, st) = Raised THEN Raised
    ELSE IF DateTimeLess(ts, st).b THEN ts ELSE st

\* Mutant of TrackEnd: the end_time is the timestamp seen last.
TrackEndLast(et, ts) == IF et # PyNone /\ DateTimeLess(et, ts) = Raised THEN Raised ELSE ts

\* Lines 514-515: the end_time after a retained Message with timestamp ts.
TrackEnd(et, ts) ==
    IF et = PyNone THEN ts
    ELSE IF DateTimeLess(et, ts) = Raised THEN Raised
    ELSE IF DateTimeLess(et, ts).b THEN ts ELSE et

\* m.token_count or 0 as an addend, or Raised: int + str and the like.
TokenAddend(m) ==
    LET c == PyOr(m.token_count, Num(0))
    IN  CASE c.k = "num" -> c
          [] c.k = "bool" -> Num(IF c.b THEN 1 ELSE 0)
          [] OTHER -> Raised

\* sum(m.token_count or 0 for m in messages): an integer, or Raised.
RECURSIVE TotalTokens(_)
TotalTokens(msgs) ==
    IF msgs = <<>> THEN Num(0)
    ELSE IF TokenAddend(Head(msgs)) = Raised \/ TotalTokens(Tail(msgs)) = Raised THEN Raised
    ELSE Num(TokenAddend(Head(msgs)).lo + TotalTokens(Tail(msgs)).lo)

\* json.loads(line): the value the line holds, Raised (JSONDecodeError) for
\* a line that is no JSON text.
JsonLoads(line) == IF line.k = "badjson" THEN Raised ELSE line

\* Lines 468-470 and 483: the file is missing, or opening it fails.
FileNotFound ==
    /\ pc = "start"
    /\ pc' = "done"
    /\ result' = PyNone
    /\ UNCHANGED <<entry, message, messages, start_time, end_time, working_directory, project_path, summary, nread>>
    /\ UNCHANGED <<layer1Vars, batchVars, clusterVars, pipelineVars, incrementalVars>>

OpenFile ==
    /\ pc = "start"
    /\ pc' = "read"
    /\ UNCHANGED <<entry, message, messages, start_time, end_time, working_directory, project_path, summary, nread, result>>
    /\ UNCHANGED <<layer1Vars, batchVars, clusterVars, pipelineVars, incrementalVars>>

\* Lines 517-519: an IOError while reading gives None.
ReadIOError ==
    /\ pc = "read"
    /\ pc' = "done"
    /\ result' = PyNone
    /\ UNCHANGED <<entry, message, messages, start_time, end_time, working_directory, project_path, summary, nread>>
    /\ UNCHANGED <<layer1Vars, batchVars, clusterVars, pipelineVars, incrementalVars>>

\* An exception that no handler of parse_file catches leaves it.
Escapes ==
    /\ pc' = "done"
    /\ result' = Raised

Continue ==
    /\ pc' = "read"
    /\ result' = result

\* Lines 496-503: the record is session metadata.
IsInit(e) == Get(e, "type", Str(S_empty)) = Str(S_init)
\* Mutant of IsSummary: a summary record is known by its summary key.
IsSummaryByKey(e) == "summary" \in DOMAIN e
IsSummary(e) == Get(e, "type", Str(S_empty)) = Str(S_summary)

\* Lines 484-515: one iteration of the loop over the lines.
ReadLine(line) ==
    /\ pc = "read"
    /\ UNCHANGED <<layer1Vars, batchVars, clusterVars, pipelineVars, incrementalVars>>
    /\ nread < MaxLines
    /\ nread' = nread + 1
    /\ entry' = line
    /\ IF line.k = "blank" \/ JsonLoads(line) = Raised
       THEN /\ Continue
            /\ UNCHANGED <<message, messages, start_time, end_time, working_directory, project_path, summary>>
       ELSE IF line.k # "dict"
       THEN /\ Escapes
            /\ UNCHANGED <<message, messages, start_time, end_time, working_directory, project_path, summary>>
       ELSE IF IsInit(line.d)
       THEN /\ Continue
            /\ working_directory' = PyOr(Get(line.d, "cwd", PyNone), Get(line.d, "workingDirectory", PyNone))
            /\ project_path' = Get(line.d, "project", PyNone)
            /\ UNCHANGED <<message, messages, start_time, end_time, summary>>
       ELSE IF IsSummary(line.d)
       THEN /\ Continue
            /\ summary' = PyOr(Get(line.d, "summary", PyNone), Get(line.d, "text", PyNone))
            /\ UNCHANGED <<message, messages, start_time, end_time, working_directory, project_path>>
       ELSE LET m == ParseEntry(line.d)
            IN  /\ message' = m
                /\ UNCHANGED <<working_directory, project_path, summary>>
                /\ IF m = PyNone
                   THEN Continue /\ UNCHANGED <<messages, start_time, end_time>>
                   ELSE IF IsSubstantial(m) = Raised
                   THEN Escapes /\ UNCHANGED <<messages, start_time, end_time>>
                   ELSE IF ~IsSubstantial(m).b
                   THEN Continue /\ UNCHANGED <<messages, start_time, end_time>>
                   ELSE /\ messages' = Append(messages, m)
                        /\ IF ~Truthy(m.timestamp)
                           THEN Continue /\ UNCHANGED <<start_time, end_time>>
                           ELSE IF TrackStart(start_time, m.timestamp) = Raised
                           THEN Escapes /\ UNCHANGED <<start_time, end_time>>
                           ELSE IF TrackEnd(end_time, m.timestamp) = Raised
                           THEN Escapes /\ start_time' = TrackStart(start_time, m.timestamp) /\ UNCHANGED end_time
                           ELSE /\ Continue
                                /\ start_time' = TrackStart(start_time, m.timestamp)
                                /\ end_time' = TrackEnd(end_time, m.timestamp)

\* Lines 521-547: the end of the file.
EndOfFile ==
    /\ pc = "read"
    /\ pc' = "done"
    /\ result' = IF messages = <<>> THEN PyNone
                 ELSE IF TotalTokens(messages) = Raised THEN Raised
                 ELSE Conversation(project_path, working_directory, start_time, end_time, messages, summary, TotalTokens(messages).lo)
    /\ UNCHANGED <<entry, message, messages, start_time, end_time, working_directory, project_path, summary, nread>>
    /\ UNCHANGED <<layer1Vars, batchVars, clusterVars, pipelineVars, incrementalVars>>

(***************************************************************************)
(* Inputs: the texts, records and lines the parser is run on.              *)
(***************************************************************************)
S_USER_upper == <<"U", "S", "E", "R">>
S_bogus == <<"b", "o", "g", "u", "s">>
S_Bash == <<"B", "a", "s", "h">>
S_Read == <<"R", "e", "a", "d">>
S_t1 == <<"t", "1">>
S_t2 == <<"t", "2">>
S_hello == <<"h", "e", "l", "l", "o">>
S_ok == <<"o", "k">>
S_ten == <<"0", "1", "2", "3", "4", "5", "6", "7", "8", "9">>
S_eleven == <<"h", "e", "l", "l", "o", " ", "w", "o", "r", "l", "d">>
S_padded_ten == <<" ", " ", "0", "1", "2", "3", "4", "5", "6", "7", "8", "9", " ", " ">>
S_long == <<"p", "l", "e", "a", "s", "e", " ", "f", "i", "x", " ", "t", "h", "e", " ", "b", "u", "g">>
S_nested == <<"n", "e", "s", "t", "e", "d", " ", "c", "o", "n", "t", "e", "n", "t", " ", "h", "e", "r", "e">>
S_claude == <<"c", "l", "a", "u", "d", "e", "-", "a", "s", "s", "i", "s", "t", "a", "n", "t">>
S_tmp == <<"/", "t", "m", "p">>
S_home == <<"/", "h", "o", "m", "e">>
S_proj == <<"p", "r", "o", "j">>
S_recap == <<"f", "i", "x", "e", "d", " ", "t", "h", "e", " ", "b", "u", "g">>
S_garbage == <<"n", "o", "t", "-", "a", "-", "d", "a", "t", "e">>
S_twelve == <<"1", "2">>
\* base64 of "hello world!", and a text with incorrect padding
B64_hello_world == <<"a", "G", "V", "s", "b", "G", "8", "g", "d", "2", "9", "y", "b", "G", "Q", "h">>
B64_bad == <<"a", "G", "V", "s", "b", "G", "8">>

\* The text 2024-01-01T00:00:0d, with a Z when aware.
IsoText(d, aware) == Str(IsoPrefix \o <<Digits[d + 1]>> \o (IF aware THEN <<"Z">> ELSE <<>>))

\* {} and the one-key dicts {key: v}; K(key, v) is one of them.
K(key, v) == [x \in {key} |-> v]
Opt(key, vals) == {EmptyDict} \cup {K(key, v) : v \in vals}

TextPart(s) == Dict(K("type", Str(S_text)) @@ K("text", Str(s)))
ToolPart(name, id) == Dict(K("type", Str(S_tool_use)) @@ K("name", Str(name)) @@ K("id", Str(id)))

UserLine(content, extra) == Dict(K("type", Str(S_user)) @@ K("content", Str(content)) @@ extra)

\* The lines of the transcripts parse_file is run on.
Lines ==
    { BlankLine, BadJsonLine, List(<<Num(1)>>),
      Dict(K("type", Str(S_init)) @@ K("cwd", Str(S_tmp)) @@ K("project", Str(S_proj)) @@ K("timestamp", IsoText(0, TRUE))),
      Dict(K("type", Str(S_init)) @@ K("workingDirectory", Str(S_home))),
      Dict(K("type", Str(S_summary)) @@ K("text", Str(S_recap)) @@ K("token_count", Num(9)) @@ K("timestamp", IsoText(9, TRUE))),
      UserLine(S_long, K("timestamp", IsoText(1, TRUE))),
      UserLine(S_long, K("timestamp", IsoText(2, TRUE))),
      UserLine(S_long, K("timestamp", IsoText(3, TRUE))),
      UserLine(S_long, K("timestamp", IsoText(2, FALSE))),
      UserLine(S_ok, K("timestamp", IsoText(0, TRUE))),
      UserLine(S_padded_ten, K("timestamp", IsoText(4, TRUE))),
      UserLine(S_eleven, K("token_count", Num(5))),
      UserLine(S_long, K("token_count", Str(S_twelve))),
      Dict(K("type", Str(S_user)) @@ K("text", Num(7))),
      Dict(K("type", Str(S_tool_use)) @@ K("name", Str(S_Bash)) @@ K("id", Str(S_t1)) @@ K("usage", Dict(K("output_tokens", Num(7))))),
      Dict(K("type", Str(S_tool_result)) @@ K("content", Str(S_ok))),
      Dict(K("type", Str(S_assistant)) @@ K("content", List(<<TextPart(S_hello), ToolPart(S_Read, S_t2)>>)) @@ K("timestamp", BigNum(1704, 67205000))),
      Dict(K("type", Str(S_system)) @@ K("content", Str(S_long))),
      Dict(K("message", Dict(K("role", Str(S_user)) @@ K("content", Str(S_nested))))) }

\* type="tool_use" records over their optional fields.
ToolUseEntries ==
    { K("type", Str(S_tool_use)) @@ n @@ tn @@ i @@ ti @@ inp @@ par @@ ts @@ tc @@ us @@ c :
        n \in Opt("name", {Str(S_Bash)}), tn \in Opt("tool_name", {Str(S_Read)}),
        i \in Opt("id", {Str(S_t1)}), ti \in Opt("tool_id", {Str(S_t2)}),
        inp \in Opt("input", {Dict(K("cmd", Str(S_ok)))}), par \in Opt("parameters", {Dict(EmptyDict)}),
        ts \in Opt("timestamp", {Num(1), IsoText(1, TRUE), Str(S_garbage), List(<<>>)}),
        tc \in Opt("token_count", {Num(0), Num(5)}),
        us \in Opt("usage", {Dict(EmptyDict), Dict(K("output_tokens", Num(7))), PyNone}),
        c \in Opt("content", {Str(S_long), List(<<TextPart(S_hello)>>)}) }

TypeValues == {Str(S_user), Str(S_human), Str(S_assistant), Str(S_ai), Str(S_system), Str(S_tool_use), Str(S_tool_result), Str(S_bogus), Str(S_USER_upper), Num(1)}
RoleValues == {Str(S_user), Str(S_human), Str(S_assistant), Str(S_ai), Str(S_system), Str(S_tool_use), Str(S_tool_result), Str(S_bogus)}

\* Records over the keys the dispatch of parse_entry looks at.
DispatchEntries ==
    { t @@ r @@ m @@ c @@ x :
        t \in Opt("type", TypeValues), r \in Opt("role", RoleValues),
        m \in Opt("message", {Str(S_long), Dict(K("role", Str(S_assistant)) @@ K("content", Str(S_nested))), PyNone}),
        c \in Opt("content", {Str(S_eleven), Str(S_ok)}),
        x \in Opt("sender", {Str(S_claude)}) }

\* Records over the sources of _extract_content.
ContentEntries ==
    { d @@ c @@ b @@ m @@ x :
        d \in {K("type", Str(S_user)), K("role", Str(S_assistant)), K("type", Str(S_tool_result))},
        c \in Opt("content", {Str(S_empty), Str(S_long), List(<<>>), List(<<TextPart(S_hello), ToolPart(S_Bash, S_t1)>>), PyNone}),
        b \in Opt("content_base64", {Str(B64_hello_world), Str(B64_bad)}),
        m \in Opt("message", {Str(S_empty), Str(S_nested)}),
        x \in Opt("text", {Str(S_empty), Str(S_hello)}) }

Entries == ToolUseEntries \cup DispatchEntries \cup ContentEntries

\* No document is being extracted, no directory processed, no clustering run.
Layer1Idle ==
    /\ doc_content = PyNone
    /\ parser_format = PyNone
    /\ extraction = PyNone
    /\ arg = PyNone
    /\ retval = PyNone

BatchIdle ==
    /\ input_dir = PyNone
    /\ srptd_files = PyNone
    /\ file_index = 0
    /\ results = PyNone
    /\ output_dir = PyNone

ClusterIdle ==
    /\ extractions_dir = PyNone
    /\ doc_cards_dir = PyNone
    /\ buckets_dir = PyNone
    /\ clustering_summary = PyNone
    /\ enriched_cards_dir = PyNone
    /\ enriched_buckets_dir = PyNone

\* No pipeline is being run and no bucket clustered.
PipelineIdle ==
    /\ progress = PyNone
    /\ options = PyNone
    /\ start_from_phase = 0
    /\ phase_index = 0
    /\ run_results = PyNone
    /\ run_count = 0

IncrementalIdle ==
    /\ clusters = PyNone
    /\ assignments = PyNone
    /\ doc_index = 0

\* No transcript is being parsed.
ParserIdle ==
    /\ entry = PyNone
    /\ message = PyNone
    /\ messages = <<>>
    /\ start_time = PyNone
    /\ end_time = PyNone
    /\ working_directory = PyNone
    /\ project_path = PyNone
    /\ summary = PyNone
    /\ nread = 0
    /\ result = PyNone

(***************************************************************************)
(* Spec: parse_file on a file of at most MaxLines lines.                   *)
(***************************************************************************)
Init ==
    /\ pc = "start"
    /\ entry = PyNone
    /\ message = PyNone
    /\ messages = <<>>
    /\ start_time = PyNone
    /\ end_time = PyNone
    /\ working_directory = PyNone
    /\ project_path = PyNone
    /\ summary = PyNone
    /\ nread = 0
    /\ result = Pending
    /\ Layer1Idle /\ BatchIdle /\ ClusterIdle /\ PipelineIdle /\ IncrementalIdle

Next ==
    \/ FileNotFound
    \/ OpenFile
    \/ \E line \in Lines : ReadLine(line)
    \/ ReadIOError
    \/ EndOfFile

Spec == Init /\ [][Next]_vars

(***************************************************************************)
(* SpecEntry: LogEntryParser.parse_entry on one record.                    *)
(***************************************************************************)
InitEntry ==
    /\ pc = "entry"
    /\ entry \in {Dict(e) : e \in Entries}
    /\ message = Pending
    /\ messages = <<>>
    /\ start_time = PyNone
    /\ end_time = PyNone
    /\ working_directory = PyNone
    /\ project_path = PyNone
    /\ summary = PyNone
    /\ nread = 0
    /\ result = Pending
    /\ Layer1Idle /\ BatchIdle /\ ClusterIdle /\ PipelineIdle /\ IncrementalIdle

\* Line 506: message = self.entry_parser.parse_entry(entry)
CallParseEntry ==
    /\ pc = "entry"
    /\ pc' = "parsed"
    /\ message' = ParseEntry(entry.d)
    /\ UNCHANGED <<entry, messages, start_time, end_time, working_directory, project_path, summary, nread, result>>
    /\ UNCHANGED <<layer1Vars, batchVars, clusterVars, pipelineVars, incrementalVars>>

NextEntry == CallParseEntry

SpecEntry == InitEntry /\ [][NextEntry]_vars

(***************************************************************************)
(* Properties of parse_file (specification Spec)                           *)
(***************************************************************************)

\* C1: no line of the transcript (invalid JSON, JSON that is no object, a
\* record whose fields cannot be parsed or compared) makes parse_file raise:
\* the call never ends with an exception leaving it.
C1_NoLineMakesParseFileRaise == result # Raised

\* Substantial: at least one ToolUse, or a trimmed content longer than 10.
Substantial(m) == Len(m.tool_uses) >= 1 \/ (m.content.k = "str" /\ Len(Strip(m.content.s)) > 10)

\* C2: every Message retained so far, and every Message of the Conversation
\* parse_file returns, is substantial.
C2_RetainedMessagesAreSubstantial ==
    /\ \A i \in 1..Len(messages) : Substantial(messages[i])
    /\ result.k = "conversation" => \A i \in 1..Len(result.messages) : Substantial(result.messages[i])

\* A Conversation of two Messages was returned, one kept for its ToolUse
\* alone, after a last record whose Message was not substantial was dropped.
C2_Witness ==
    /\ result.k = "conversation"
    /\ Len(result.messages) = 2
    /\ \E i \in 1..2 : Len(result.messages[i].tool_uses) = 1 /\ Len(Strip(result.messages[i].content.s)) <= 10
    /\ message # PyNone
    /\ ~Substantial(message)

\* The timestamps of the Messages ms that have one.
Timestamps(ms) == {ms[i].timestamp : i \in {j \in 1..Len(ms) : ms[j].timestamp # PyNone}}

\* C3: the start_time of the returned Conversation is the minimum and its
\* end_time the maximum of the timestamps of its Messages, both unset when
\* no Message has a timestamp; nothing else contributes.
C3_StartEndAreMinMax ==
    result.k = "conversation" =>
        LET ts == Timestamps(result.messages)
        IN  IF ts = {} THEN result.start_time = PyNone /\ result.end_time = PyNone
            ELSE /\ result.start_time \in ts
                 /\ result.end_time \in ts
                 /\ \A x \in ts : result.start_time.t <= x.t /\ x.t <= result.end_time.t

\* Timestamps fed as T1, T3, T2 gave start_time = T1 and end_time = T3.
C3_Witness ==
    /\ result.k = "conversation"
    /\ Len(result.messages) = 3
    /\ result.messages[1].timestamp = DateTime(TRUE, IsoBase + 1)
    /\ result.messages[2].timestamp = DateTime(TRUE, IsoBase + 3)
    /\ result.messages[3].timestamp = DateTime(TRUE, IsoBase + 2)
    /\ result.start_time = DateTime(TRUE, IsoBase + 1)
    /\ result.end_time = DateTime(TRUE, IsoBase + 3)

\* C10: a step that reads a record of type init or summary adds no Message,
\* leaves the messages, start_time, end_time and token total as they were and
\* goes on reading; an init record sets the working directory and project
\* path and nothing else, a summary record the summary text and nothing else.
C10_MetadataRecordsAddNoMessage ==
    [][(/\ pc = "read"
        /\ nread' = nread + 1
        /\ entry'.k = "dict"
        /\ Get(entry'.d, "type", PyNone) \in {Str(S_init), Str(S_summary)})
       => /\ messages' = messages
          /\ start_time' = start_time
          /\ end_time' = end_time
          /\ TotalTokens(messages') = TotalTokens(messages)
          /\ pc' = "read"
          /\ result' = result
          /\ IF Get(entry'.d, "type", PyNone) = Str(S_init)
             THEN /\ working_directory' = PyOr(Get(entry'.d, "cwd", PyNone), Get(entry'.d, "workingDirectory", PyNone))
                  /\ project_path' = Get(entry'.d, "project", PyNone)
                  /\ summary' = summary
             ELSE /\ summary' = PyOr(Get(entry'.d, "summary", PyNone), Get(entry'.d, "text", PyNone))
                  /\ working_directory' = working_directory
                  /\ project_path' = project_path]_vars

\* A summary record was read after two Messages were retained, and the
\* Conversation returned holds these two Messages and the summary text.
C10_Witness ==
    /\ result.k = "conversation"
    /\ entry.k = "dict"
    /\ Get(entry.d, "type", PyNone) = Str(S_summary)
    /\ Len(result.messages) = 2
    /\ result.summary = Str(S_recap)
    /\ result.end_time # PyNone
    /\ result.end_time.t < IsoBase + 9

(***************************************************************************)
(* Properties of parse_entry (specification SpecEntry)                     *)
(***************************************************************************)
Parsed == pc = "parsed"
TypeOf(e) == Get(e, "type", PyNone)

\* C4: a record with type="tool_use" yields a Message with exactly one
\* ToolUse, which carries the record's name and id, whatever optional fields
\* (input/parameters, timestamp, token_count, usage, content) it has.
C4_ToolUseAlwaysYieldsMessage ==
    (Parsed /\ TypeOf(entry.d) = Str(S_tool_use)) =>
        /\ message # PyNone
        /\ Len(message.tool_uses) = 1
        /\ message.tool_uses[1].tool_name = Get(entry.d, "name", Get(entry.d, "tool_name", Str(S_unknown)))
        /\ message.tool_uses[1].tool_id = Get(entry.d, "id", Get(entry.d, "tool_id", Str(S_empty)))

\* The fixed role table.
RoleTable == (S_user :> "USER") @@ (S_assistant :> "ASSISTANT") @@ (S_system :> "SYSTEM") @@ (S_tool_use :> "TOOL") @@ (S_tool_result :> "TOOL_RESULT")

\* C5: a record whose type is an entry of the role table yields a Message
\* with the role the table gives (stated for the records without a usage
\* field, whose token count cannot fail).
C5_TypeMappedThroughRoleTable ==
    (Parsed /\ TypeOf(entry.d).k = "str" /\ TypeOf(entry.d).s \in DOMAIN RoleTable /\ "usage" \notin DOMAIN entry.d) =>
        /\ message # PyNone
        /\ message.role = RoleTable[TypeOf(entry.d).s]

\* The record e with its role key renamed to type.
RoleAsType(e) == [x \in (DOMAIN e \ {"role"}) \cup {"type"} |-> IF x = "type" THEN e["role"] ELSE e[x]]

\* C6: a record with role=v and no type yields a Message exactly when the
\* same record with type=v yields one, and then with the same role.
C6_RoleMappedLikeType ==
    (Parsed /\ "role" \in DOMAIN entry.d /\ "type" \notin DOMAIN entry.d) =>
        /\ (message = PyNone) <=> (ParseEntry(RoleAsType(entry.d)) = PyNone)
        /\ message # PyNone => message.role = ParseEntry(RoleAsType(entry.d)).role

\* C7: the Message of a type="tool_use" and of a type="tool_result" record
\* bears a ToolUse.
C7_ToolRecordsBearToolUse ==
    (Parsed /\ TypeOf(entry.d) \in {Str(S_tool_use), Str(S_tool_result)} /\ message # PyNone) =>
        message.tool_uses # <<>>

\* The role a record's first dispatch key decides, "none" when that key
\* gives no Message: type, then role, then message, then content.
RECURSIVE DecidedRole(_)
DecidedRole(e) ==
    IF "type" \in DOMAIN e
    THEN (IF e["type"].k # "str" THEN {"none"}
          ELSE IF Lower(e["type"].s) \in {S_user, S_human} THEN {"USER"}
          ELSE IF Lower(e["type"].s) \in {S_assistant, S_ai} THEN {"ASSISTANT"}
          ELSE IF Lower(e["type"].s) = S_tool_use THEN {"TOOL"}
          ELSE IF Lower(e["type"].s) = S_tool_result THEN {"TOOL_RESULT"}
          ELSE {"none"})
    ELSE IF "role" \in DOMAIN e
    THEN (IF e["role"].k = "str" /\ Lower(e["role"].s) \in DOMAIN RoleTable THEN {RoleTable[Lower(e["role"].s)]} ELSE {"none"})
    ELSE IF "message" \in DOMAIN e
    THEN (IF e["message"].k = "str" THEN {"USER"}
          ELSE IF e["message"].k = "dict" THEN DecidedRole(e["message"].d)
          ELSE {"none"})
    ELSE IF "content" \in DOMAIN e THEN {"USER", "ASSISTANT"}
    ELSE {"none"}

\* C8: the first key present among type, role, message, content decides the
\* outcome: a Message has the role that key decides, and there is no Message
\* when that key gives none, whatever the later keys hold.
C8_DispatchFirstMatchWins ==
    Parsed =>
        /\ message # PyNone => message.role \in DecidedRole(entry.d)
        /\ DecidedRole(entry.d) = {"none"} => message = PyNone

\* An unrecognised type together with a valid role and a content gave no
\* Message.
C8_Witness ==
    /\ Parsed
    /\ TypeOf(entry.d) = Str(S_bogus)
    /\ Get(entry.d, "role", PyNone) = Str(S_user)
    /\ "content" \in DOMAIN entry.d
    /\ message = PyNone

\* The first non-empty text among the sequence of texts.
RECURSIVE FirstNonEmpty(_)
FirstNonEmpty(texts) ==
    IF texts = <<>> THEN S_empty
    ELSE IF Head(texts) # S_empty THEN Head(texts)
    ELSE FirstNonEmpty(Tail(texts))

\* The sources of the content of e in their order: the flat string, the list
\* of typed parts, the base64-decoded text, the message or text field.
ContentSources(e) ==
    LET content == Get(e, "content", PyNone)
        b64 == Get(e, "content_base64", PyNone)
        msg == Get(e, "message", PyNone)
        text == Get(e, "text", PyNone)
    IN  << IF content.k = "str" THEN content.s ELSE S_empty,
           IF content.k = "list" /\ JoinParts(ContentParts(content.l)) # Raised THEN JoinParts(ContentParts(content.l)).s ELSE S_empty,
           IF b64.k = "str" /\ B64DecodeText(b64) # Raised THEN B64DecodeText(b64).s ELSE S_empty,
           IF msg.k = "str" THEN msg.s ELSE S_empty,
           IF text.k = "str" THEN text.s ELSE S_empty >>

\* C9: the content of the Message of a user or tool_result record (type) or
\* an assistant record (role) is the first non-empty of its sources: an
\* empty earlier source does not hide a non-empty later one.
C9_ContentIsFirstNonEmptySource ==
    (Parsed /\ entry.d \in ContentEntries /\ message # PyNone) =>
        message.content = Str(FirstNonEmpty(ContentSources(entry.d)))

(***************************************************************************)
(* scripts/layer1_extractor.py: the deterministic extraction of an SR-PTD  *)
(* document.  The regular expressions of the code are computed on the      *)
(* characters of the text, each by an operator that matches as re does.    *)
(***************************************************************************)
\* \w of a str pattern: the alphanumeric characters and the underscore.
IsWord(c) ==
    \/ IndexOf(UpperChars, c) > 0
    \/ IndexOf(LowerChars, c) > 0
    \/ IndexOf(Digits, c) > 0
    \/ c \in {"_", "U00C9", "U00E9", "U0130"}

\* \s of a str pattern.
IsSpace(c) == c \in Whitespace

\* Line 171: re.sub(r'\s+', '-', tag), each run of whitespace gives one dash.
RECURSIVE SubSpaces(_)
SubSpaces(s) ==
    IF s = <<>> THEN <<>>
    ELSE IF IsSpace(Head(s))
    THEN (IF Len(s) > 1 /\ IsSpace(s[2]) THEN <<>> ELSE <<"-">>) \o SubSpaces(Tail(s))
    ELSE <<Head(s)>> \o SubSpaces(Tail(s))

\* Mutant of StripNonWord: re.sub with count=1 removes the first such
\* character only.
RECURSIVE StripFirstNonWord(_)
StripFirstNonWord(s) ==
    IF s = <<>> THEN <<>>
    ELSE IF IsWord(Head(s)) \/ Head(s) = "-" THEN <<Head(s)>> \o StripFirstNonWord(Tail(s))
    ELSE Tail(s)

\* Line 172: re.sub(r'[^\w\-]', '', tag)
RECURSIVE StripNonWord(_)
StripNonWord(s) ==
    IF s = <<>> THEN <<>>
    ELSE (IF IsWord(Head(s)) \/ Head(s) = "-" THEN <<Head(s)>> ELSE <<>>) \o StripNonWord(Tail(s))

\* Lines 168-173: normalize_tag
NormalizeTag(tag) == StripNonWord(SubSpaces(Lower(Strip(tag))))

(***************************************************************************)
(* SpecTag: normalize_tag on one text, and again on what it returned.      *)
(***************************************************************************)
MaxTagLen == 3

\* Letters of both cases, a digit, the separators, a character \w rejects,
\* and outside ASCII a letter, a whitespace and the capital I with dot.
TagAlphabet == {"a", "B", "7", " ", "-", "_", "!", "U00A0", "U00C9", "U0130"}

TagTexts == UNION {[1..n -> TagAlphabet] : n \in 0..MaxTagLen}

InitTag ==
    /\ pc = "normalize_tag"
    /\ arg \in {Str(t) : t \in TagTexts}
    /\ doc_content = PyNone
    /\ parser_format = PyNone
    /\ extraction = PyNone
    /\ retval = PyNone
    /\ ParserIdle /\ BatchIdle /\ ClusterIdle /\ PipelineIdle /\ IncrementalIdle

CallNormalizeTag ==
    /\ pc = "normalize_tag"
    /\ pc' = "returned"
    /\ retval' = Str(NormalizeTag(arg.s))
    /\ UNCHANGED <<doc_content, parser_format, extraction, arg>>
    /\ UNCHANGED <<parserVars, batchVars, clusterVars, pipelineVars, incrementalVars>>

\* normalize_tag applied to the text it returned.
CallNormalizeTagAgain ==
    /\ pc = "returned"
    /\ pc' = "returned_again"
    /\ retval' = Str(NormalizeTag(retval.s))
    /\ UNCHANGED <<doc_content, parser_format, extraction, arg>>
    /\ UNCHANGED <<parserVars, batchVars, clusterVars, pipelineVars, incrementalVars>>

NextTag ==
    \/ CallNormalizeTag
    \/ CallNormalizeTagAgain

SpecTag == InitTag /\ [][NextTag]_vars

\* C20: normalize_tag returns a text for every text, the empty one and the
\* ones outside ASCII included, and applied to its own result it returns
\* that result unchanged.
C20_NormalizeTagTotalIdempotent ==
    /\ pc \in {"returned", "returned_again"} => retval.k = "str"
    /\ pc = "returned_again" => retval = Str(NormalizeTag(arg.s))

\* A tag of a capital I with dot, a no-break space and an exclamation mark
\* was normalized to "i-", and normalized again.
C20_Witness ==
    /\ pc = "returned_again"
    /\ arg = Str(<<"U0130", "U00A0", "!">>)
    /\ retval = Str(<<"i", "-">>)

\* The characters of [a-z0-9_-].
IsLowerTagChar(c) == IndexOf(LowerChars, c) > 0 \/ IndexOf(Digits, c) > 0 \/ c \in {"_", "-"}

\* C21: what normalize_tag returns is lowercase and holds no character
\* outside [A-Za-z0-9_-]: the letters outside ASCII are stripped too.
C21_NormalizedTagIsAsciiLowercase ==
    pc = "returned" => \A i \in 1..Len(retval.s) : IsLowerTagChar(retval.s[i])

(***************************************************************************)
(* SectionParser (lines 199-288)                                           *)
(***************************************************************************)
\* s[:n] and s[n:]
Take(s, n) == SubSeq(s, 1, IF n < Len(s) THEN n ELSE Len(s))
Drop(s, n) == SubSeq(s, n + 1, Len(s))

\* s[-n:]
TakeLast(s, n) == IF n < Len(s) THEN SubSeq(s, Len(s) - n + 1, Len(s)) ELSE s

\* sub in s
HasSub(s, sub) == \E i \in 0..(Len(s) - Len(sub)) : \A j \in 1..Len(sub) : s[i + j] = sub[j]

\* s.split('\n')
RECURSIVE SplitLines(_)
SplitLines(s) ==
    IF \A i \in 1..Len(s) : s[i] # "\n" THEN <<s>>
    ELSE LET i == CHOOSE i \in 1..Len(s) : s[i] = "\n" /\ \A j \in 1..(i - 1) : s[j] # "\n"
         IN  <<SubSeq(s, 1, i - 1)>> \o SplitLines(Drop(s, i))

\* The lowercase literal lit matches at the start of s under re.IGNORECASE.
PrefixCI(s, lit) == Len(s) >= Len(lit) /\ \A j \in 1..Len(lit) : LowerOf(s[j])[1] = lit[j]

\* The literals of parts, \s* between them, match at the start of s: what
\* follows the match, or None.
RECURSIVE AfterParts(_, _)
AfterParts(s, parts) ==
    IF parts = <<>> THEN Str(s)
    ELSE IF ~PrefixCI(s, Head(parts)) THEN PyNone
    ELSE AfterParts(IF Len(parts) > 1 THEN LStrip(Drop(s, Len(Head(parts)))) ELSE Drop(s, Len(Head(parts))), Tail(parts))

\* ^##\s*(?:key|key|...) matches the line.
MatchesHeading(line, keys) ==
    /\ Take(line, 2) = <<"#", "#">>
    /\ \E key \in keys : AfterParts(LStrip(Drop(line, 2)), key) # PyNone

\* Line 204: ^#\s*(?:Section\s*A[:.]?|SR-PTD|Task Doc).*?(?:Header|Skill Trigger)
MatchesFullHeader(line) ==
    /\ Take(line, 1) = <<"#">>
    /\ \E key \in {<<<<"s", "e", "c", "t", "i", "o", "n">>, <<"a">>>>, <<<<"s", "r", "-", "p", "t", "d">>>>, <<<<"t", "a", "s", "k", " ", "d", "o", "c">>>>} :
          LET rest == AfterParts(LStrip(Drop(line, 1)), key)
          IN  /\ rest # PyNone
              /\ \/ HasSub(Lower(rest.s), <<"h", "e", "a", "d", "e", "r">>)
                 \/ HasSub(Lower(rest.s), <<"s", "k", "i", "l", "l", " ", "t", "r", "i", "g", "g", "e", "r">>)

\* Line 212, first alternative: ^##\s*Skill.*Assessment
MatchesSkillAssessment(line) ==
    /\ Take(line, 2) = <<"#", "#">>
    /\ LET rest == AfterParts(LStrip(Drop(line, 2)), <<<<"s", "k", "i", "l", "l">>>>)
       IN  rest # PyNone /\ HasSub(Lower(rest.s), <<"a", "s", "s", "e", "s", "s", "m", "e", "n", "t">>)

\* Lines 203-214, the patterns after the first, in the order of the dict.
FULL_SECTION_PATTERNS == <<
    [name |-> <<"c", "o", "n", "t", "e", "x", "t">>, keys |-> {<<<<"s", "e", "c", "t", "i", "o", "n">>, <<"b">>>>, <<<<"c", "o", "n", "t", "e", "x", "t">>>>, <<<<"i", "n", "p", "u", "t", "s">>>>, <<<<"p", "r", "o", "b", "l", "e", "m", " ", "s", "t", "a", "t", "e", "m", "e", "n", "t">>>>}],
    [name |-> <<"w", "o", "r", "k", "f", "l", "o", "w">>, keys |-> {<<<<"s", "e", "c", "t", "i", "o", "n">>, <<"c">>>>, <<<<"w", "o", "r", "k", "f", "l", "o", "w">>>>, <<<<"w", "o", "r", "k", " ", "p", "e", "r", "f", "o", "r", "m", "e", "d">>>>}],
    [name |-> <<"k", "n", "o", "w", "l", "e", "d", "g", "e">>, keys |-> {<<<<"s", "e", "c", "t", "i", "o", "n">>, <<"d">>>>, <<<<"k", "n", "o", "w", "l", "e", "d", "g", "e">>>>, <<<<"k", "n", "o", "w", "l", "e", "d", "g", "e", " ", "u", "s", "e", "d">>>>, <<<<"k", "n", "o", "w", "l", "e", "d", "g", "e", " ", "a", "c", "c", "e", "s", "s", "e", "d">>>>}],
    [name |-> <<"c", "o", "d", "e">>, keys |-> {<<<<"s", "e", "c", "t", "i", "o", "n">>, <<"e">>>>, <<<<"c", "o", "d", "e">>>>, <<<<"c", "o", "d", "e", " ", "w", "r", "i", "t", "t", "e", "n">>>>}],
    [name |-> <<"o", "u", "t", "p", "u", "t", "s">>, keys |-> {<<<<"s", "e", "c", "t", "i", "o", "n">>, <<"f">>>>, <<<<"o", "u", "t", "p", "u", "t">>>>, <<<<"a", "r", "t", "i", "f", "a", "c", "t", "s">>>>, <<<<"f", "i", "l", "e", "s">>>>}],
    [name |-> <<"i", "s", "s", "u", "e", "s">>, keys |-> {<<<<"s", "e", "c", "t", "i", "o", "n">>, <<"g">>>>, <<<<"i", "s", "s", "u", "e">>>>, <<<<"i", "s", "s", "u", "e", "s">>>>, <<<<"p", "r", "o", "b", "l", "e", "m", "s">>>>}],
    [name |-> <<"v", "e", "r", "i", "f", "i", "c", "a", "t", "i", "o", "n">>, keys |-> {<<<<"s", "e", "c", "t", "i", "o", "n">>, <<"h">>>>, <<<<"v", "e", "r", "i", "f", "i", "c", "a", "t", "i", "o", "n">>>>, <<<<"v", "a", "l", "i", "d", "a", "t", "i", "o", "n">>>>, <<<<"t", "e", "s", "t">>>>}],
    [name |-> <<"s", "k", "i", "l", "l", "_", "a", "s", "s", "e", "s", "s", "m", "e", "n", "t">>, keys |-> {<<<<"s", "e", "c", "t", "i", "o", "n">>, <<"i">>>>, <<<<"r", "e", "u", "s", "a", "b", "i", "l", "i", "t", "y">>>>}],
    [name |-> <<"t", "a", "g", "s">>, keys |-> {<<<<"s", "e", "c", "t", "i", "o", "n">>, <<"j">>>>, <<<<"t", "a", "g", "s">>>>}]
>>

\* Lines 217-227
QUICK_SECTION_PATTERNS == <<
    [name |-> <<"t", "r", "i", "g", "g", "e", "r">>, keys |-> {<<<<"t", "r", "i", "g", "g", "e", "r">>>>}],
    [name |-> <<"w", "o", "r", "k", "f", "l", "o", "w">>, keys |-> {<<<<"w", "o", "r", "k", "f", "l", "o", "w">>>>}],
    [name |-> <<"d", "e", "c", "i", "s", "i", "o", "n", "s">>, keys |-> {<<<<"k", "e", "y", " ", "d", "e", "c", "i", "s", "i", "o", "n", "s">>>>}],
    [name |-> <<"k", "n", "o", "w", "l", "e", "d", "g", "e">>, keys |-> {<<<<"k", "n", "o", "w", "l", "e", "d", "g", "e">>>>}],
    [name |-> <<"c", "o", "d", "e">>, keys |-> {<<<<"c", "o", "d", "e">>>>}],
    [name |-> <<"o", "u", "t", "p", "u", "t", "s">>, keys |-> {<<<<"o", "u", "t", "p", "u", "t">>>>}],
    [name |-> <<"i", "s", "s", "u", "e", "s">>, keys |-> {<<<<"i", "s", "s", "u", "e", "s">>>>}],
    [name |-> <<"s", "k", "i", "l", "l", "_", "p", "o", "t", "e", "n", "t", "i", "a", "l">>, keys |-> {<<<<"s", "k", "i", "l", "l", " ", "p", "o", "t", "e", "n", "t", "i", "a", "l">>>>}],
    [name |-> <<"t", "a", "g", "s">>, keys |-> {<<<<"t", "a", "g", "s">>>>}]
>>

\* The name of the first pattern of the table that matches the line, or None.
FirstMatch(line, patterns) ==
    LET hits == {i \in 1..Len(patterns) :
                    \/ MatchesHeading(line, patterns[i].keys)
                    \/ patterns[i].name = <<"s", "k", "i", "l", "l", "_", "a", "s", "s", "e", "s", "s", "m", "e", "n", "t">> /\ MatchesSkillAssessment(line)}
    IN  IF hits = {} THEN PyNone
        ELSE Str(patterns[CHOOSE i \in hits : \A j \in hits : i <= j].name)

\* Lines 280-288: _match_section_header
MatchSectionHeader(line, format) ==
    IF format = "full"
    THEN IF MatchesFullHeader(line) THEN Str(<<"h", "e", "a", "d", "e", "r">>) ELSE FirstMatch(line, FULL_SECTION_PATTERNS)
    ELSE FirstMatch(line, QUICK_SECTION_PATTERNS)

\* Lines 500 and 200 of the early spans that lines 244 and 250 search.
QUICK_DATE_SPAN == 500
LEGACY_DATE_SPAN == 200

\* Mutant of HasEarlyDate: the date field is looked for in any letter case.
HasEarlyDateAnyCase(text, field, span) == HasSub(Lower(Take(text, span)), field)

\* field in self.content[:span]
HasEarlyDate(text, field, span) == HasSub(Take(text, span), field)

\* Lines 235-254: _detect_format
DetectFormat(text) ==
    LET content_lower == Lower(text)
    IN  IF HasSub(content_lower, <<"s", "e", "c", "t", "i", "o", "n", " ", "a">>) \/ HasSub(content_lower, <<"s", "k", "i", "l", "l", " ", "t", "r", "i", "g", "g", "e", "r", " ", "p", "r", "o", "f", "i", "l", "e">>)
        THEN "full"
        ELSE IF /\ \/ HasSub(content_lower, <<"|", " ", "*", "*", "t", "y", "p", "e", "*", "*", ":">>)
                   \/ HasEarlyDate(text, <<"*", "*", "d", "a", "t", "e", "*", "*", ":">>, QUICK_DATE_SPAN)
                /\ HasSub(content_lower, <<"#", "#", " ", "t", "r", "i", "g", "g", "e", "r">>)
                /\ HasSub(content_lower, <<"#", "#", " ", "w", "o", "r", "k", "f", "l", "o", "w">>)
        THEN "quick"
        ELSE IF \/ HasSub(content_lower, <<"t", "a", "s", "k", " ", "d", "o", "c">>)
                \/ HasEarlyDate(text, <<"-", " ", "*", "*", "d", "a", "t", "e", "*", "*", ":">>, LEGACY_DATE_SPAN)
        THEN "legacy"
        ELSE "quick"

\* A dict keeps its keys in the order of their first insertion: a sequence
\* of <<key, value>> pairs.
DictHas(d, key) == \E i \in 1..Len(d) : d[i][1] = key
DictGet(d, key, default) == IF DictHas(d, key) THEN d[CHOOSE i \in 1..Len(d) : d[i][1] = key][2] ELSE default

\* Mutant of DictSet: the text of a repeated key is appended to the text the
\* key already has.
DictSetAppending(d, key, value) ==
    IF DictHas(d, key) THEN [i \in 1..Len(d) |-> IF d[i][1] = key THEN <<key, d[i][2] \o S_newline \o value>> ELSE d[i]]
    ELSE Append(d, <<key, value>>)

\* d[key] = value
DictSet(d, key, value) ==
    IF DictHas(d, key) THEN [i \in 1..Len(d) |-> IF d[i][1] = key THEN <<key, value>> ELSE d[i]]
    ELSE Append(d, <<key, value>>)

\* Lines 262-272: the loop over the lines from line i on.
RECURSIVE SectionLoop(_, _, _, _, _, _)
SectionLoop(lines, i, format, sections, current_section, current_content) ==
    IF i > Len(lines)
    THEN \* lines 274-278
         IF current_content # <<>> THEN DictSet(sections, current_section, Strip(Join(S_newline, current_content))) ELSE sections
    ELSE LET section_match == MatchSectionHeader(lines[i], format)
         IN  IF section_match # PyNone
             THEN SectionLoop(lines, i + 1, format,
                              IF current_content # <<>> THEN DictSet(sections, current_section, Strip(Join(S_newline, current_content))) ELSE sections,
                              section_match.s, <<lines[i]>>)
             ELSE SectionLoop(lines, i + 1, format, sections, current_section, Append(current_content, lines[i]))

\* Lines 256-278: extract_sections
ExtractSections(text, format) == SectionLoop(SplitLines(text), 1, format, <<>>, <<"h", "e", "a", "d", "e", "r">>, <<>>)

(***************************************************************************)
(* SpecParser: SectionParser(content), then extract_sections(), on a       *)
(* document of at most MaxDocLines lines.                                  *)
(***************************************************************************)
MaxDocLines == 3

\* A header of the full dialect, one of both dialects, one of the quick
\* dialect, a subsection heading that
\* bears a full marker, an inline metadata header, the bulleted date field
\* in two letter cases, the legacy phrase, a plain line and a blank one.
DocLines == {
    <<"#", " ", "S", "R", "-", "P", "T", "D", " ", "S", "e", "c", "t", "i", "o", "n", " ", "A", ":", " ", "H", "e", "a", "d", "e", "r">>,
    <<"#", "#", " ", "W", "o", "r", "k", "f", "l", "o", "w">>,
    <<"#", "#", " ", "T", "r", "i", "g", "g", "e", "r">>,
    <<"#", "#", "#", " ", "S", "k", "i", "l", "l", " ", "T", "r", "i", "g", "g", "e", "r", " ", "P", "r", "o", "f", "i", "l", "e">>,
    <<"*", "*", "D", "a", "t", "e", "*", "*", ":", " ", "2", "0", "2", "4", "-", "0", "1", "-", "1", "5", " ", "|", " ", "*", "*", "T", "y", "p", "e", "*", "*", ":", " ", "f", "i", "x">>,
    <<"-", " ", "*", "*", "D", "a", "t", "e", "*", "*", ":", " ", "2", "0", "2", "4", "-", "0", "1", "-", "1", "5">>,
    <<"-", " ", "*", "*", "d", "a", "t", "e", "*", "*", ":", " ", "2", "0", "2", "4", "-", "0", "1", "-", "1", "5">>,
    <<"T", "a", "s", "k", " ", "D", "o", "c", " ", "n", "o", "t", "e", "s">>,
    <<"s", "t", "e", "p", " ", "o", "n", "e">>,
    <<>>
}

\* A line that fills the span line 250 searches.
Filler == [i \in 1..LEGACY_DATE_SPAN |-> "x"]

Documents ==
    {Join(S_newline, ls) : ls \in UNION {[1..n -> DocLines] : n \in 0..MaxDocLines}}
    \cup {Filler \o S_newline \o l : l \in DocLines}

InitParser ==
    /\ pc = "parser_new"
    /\ doc_content \in {Str(d) : d \in Documents}
    /\ parser_format = PyNone
    /\ extraction = PyNone
    /\ arg = PyNone
    /\ retval = PyNone
    /\ ParserIdle /\ BatchIdle /\ ClusterIdle /\ PipelineIdle /\ IncrementalIdle

\* Lines 229-233: SectionParser.__init__
NewSectionParser ==
    /\ pc = "parser_new"
    /\ pc' = "parser_ready"
    /\ parser_format' = DetectFormat(doc_content.s)
    /\ UNCHANGED <<doc_content, extraction, arg, retval>>
    /\ UNCHANGED <<parserVars, batchVars, clusterVars, pipelineVars, incrementalVars>>

\* Lines 256-278: extract_sections
CallExtractSections ==
    /\ pc = "parser_ready"
    /\ pc' = "sections"
    /\ retval' = ExtractSections(doc_content.s, parser_format)
    /\ UNCHANGED <<doc_content, parser_format, extraction, arg>>
    /\ UNCHANGED <<parserVars, batchVars, clusterVars, pipelineVars, incrementalVars>>

NextParser ==
    \/ NewSectionParser
    \/ CallExtractSections

SpecParser == InitParser /\ [][NextParser]_vars

\* The markers of the claims about the dialect, read in any letter case.
HasFullMarker(text) == HasSub(Lower(text), <<"s", "e", "c", "t", "i", "o", "n", " ", "a">>) \/ HasSub(Lower(text), <<"s", "k", "i", "l", "l", " ", "t", "r", "i", "g", "g", "e", "r", " ", "p", "r", "o", "f", "i", "l", "e">>)
HasInlineHeader(text) == HasSub(Lower(text), <<"|", " ", "*", "*", "t", "y", "p", "e", "*", "*", ":">>) \/ HasSub(Lower(Take(text, QUICK_DATE_SPAN)), <<"*", "*", "d", "a", "t", "e", "*", "*", ":">>)
HasTriggerAndWorkflow(text) == HasSub(Lower(text), <<"#", "#", " ", "t", "r", "i", "g", "g", "e", "r">>) /\ HasSub(Lower(text), <<"#", "#", " ", "w", "o", "r", "k", "f", "l", "o", "w">>)
HasLegacyMarker(text) == HasSub(Lower(text), <<"t", "a", "s", "k", " ", "d", "o", "c">>) \/ HasSub(Lower(Take(text, LEGACY_DATE_SPAN)), <<"-", " ", "*", "*", "d", "a", "t", "e", "*", "*", ":">>)

\* C17: the dialect is one of full, quick and legacy, decided by the markers
\* in any letter case: a full-form section marker gives full; else an inline
\* metadata header with both the trigger and the workflow heading gives
\* quick; else a legacy phrase or an early bolded date field gives legacy;
\* else quick.
C17_DialectByMarkerPrecedence ==
    pc \in {"parser_ready", "sections"} =>
        parser_format = IF HasFullMarker(doc_content.s) THEN "full"
                        ELSE IF HasInlineHeader(doc_content.s) /\ HasTriggerAndWorkflow(doc_content.s) THEN "quick"
                        ELSE IF HasLegacyMarker(doc_content.s) THEN "legacy"
                        ELSE "quick"

\* Some line of the text starts with the subsection marker ###.
HasSubsectionMarker(text) == \E i \in 1..Len(SplitLines(text)) : Take(SplitLines(text)[i], 3) = <<"#", "#", "#">>

\* C16: a document with a full-dialect section marker and a subsection
\* marker is classified full and its section map has a header section.
C16_FullDocumentHasHeaderSection ==
    (pc = "sections" /\ HasFullMarker(doc_content.s) /\ HasSubsectionMarker(doc_content.s)) =>
        parser_format = "full" /\ DictHas(retval, <<"h", "e", "a", "d", "e", "r">>)

\* C18: the lines are split top to bottom into spans, a span starting at the
\* first line and at every header line; a span is named by its header line,
\* which it includes, the leading span that starts with no header is named
\* header; the section map has exactly the names of the spans, and under
\* each name the text of the last span of that name alone.
C18_SectionsAreLastSpans ==
    pc = "sections" =>
        LET lines == SplitLines(doc_content.s)
            HeaderAt == [i \in 1..Len(lines) |-> MatchSectionHeader(lines[i], parser_format)]
            Firsts == {1} \cup {i \in 1..Len(lines) : HeaderAt[i] # PyNone}
            NameOf(f) == IF HeaderAt[f] # PyNone THEN HeaderAt[f].s ELSE <<"h", "e", "a", "d", "e", "r">>
            LastOf(f) == IF \E g \in Firsts : g > f
                         THEN (CHOOSE g \in Firsts : g > f /\ \A h \in Firsts : h > f => g <= h) - 1
                         ELSE Len(lines)
            TextOf(f) == Strip(Join(S_newline, SubSeq(lines, f, LastOf(f))))
        IN  /\ {retval[i][1] : i \in 1..Len(retval)} = {NameOf(f) : f \in Firsts}
            /\ \A i, j \in 1..Len(retval) : retval[i][1] = retval[j][1] => i = j
            /\ \A f \in Firsts : (\A g \in Firsts : NameOf(g) = NameOf(f) => g <= f) => DictGet(retval, NameOf(f), PyNone) = TextOf(f)

\* A document with two workflow sections and a line between them was split:
\* the map holds the text of the second section alone.
C18_Witness ==
    /\ pc = "sections"
    /\ doc_content = Str(<<"#", "#", " ", "W", "o", "r", "k", "f", "l", "o", "w", "\n", "s", "t", "e", "p", " ", "o", "n", "e", "\n", "#", "#", " ", "W", "o", "r", "k", "f", "l", "o", "w">>)
    /\ retval = <<<<<<"w", "o", "r", "k", "f", "l", "o", "w">>, <<"#", "#", " ", "W", "o", "r", "k", "f", "l", "o", "w">>>>>>

(***************************************************************************)
(* ContentExtractor.extract_workflow (lines 433-501), the steps.           *)
(***************************************************************************)
IsDigit(c) == IndexOf(Digits, c) > 0

\* The character classes of the patterns: \s, \d, \w, [^\n], [^|], [^|\n].
InClass(c, class) ==
    CASE class = "space" -> IsSpace(c)
      [] class = "digit" -> IsDigit(c)
      [] class = "word" -> IsWord(c)
      [] class = "not_newline" -> c # "\n"
      [] class = "not_bar" -> c # "|"
      [] class = "not_bar_nor_newline" -> c # "|" /\ c # "\n"

\* The end of the longest run of characters of the class that starts at
\* position i of s: the position after the run.
RunEnd(s, i, class) == CHOOSE j \in i..(Len(s) + 1) : (j = Len(s) + 1 \/ ~InClass(s[j], class)) /\ \A k \in i..(j - 1) : InClass(s[k], class)

\* ^ under re.MULTILINE
AtLineStart(s, p) == p = 1 \/ s[p - 1] = "\n"

\* int(num)
RECURSIVE ParseInt(_)
ParseInt(d) == IF d = <<>> THEN 0 ELSE ParseInt(SubSeq(d, 1, Len(d) - 1)) * 10 + (IndexOf(Digits, d[Len(d)]) - 1)

NoMatch == [ok |-> FALSE]

\* A match of a step pattern: the number, and the text from position c up to
\* position q, where the match ends.
Matched(s, num, c, q) == [ok |-> TRUE, num |-> num, text |-> SubSeq(s, c, q - 1), end |-> q]

Max(S) == CHOOSE x \in S : \A y \in S : y <= x
Min(S) == CHOOSE x \in S : \A y \in S : x <= y

\* The group (.+?)(?=\n\s*\d+\.|$) of line 447 after the blanks \s+ that
\* run from position b to position c: the group stops at the first line end
\* after its first character.  When the blanks reach the end of the text,
\* \s+ gives its last character to the group.
StrictText(s, num, b, c) ==
    IF c = b THEN NoMatch
    ELSE IF c <= Len(s) THEN Matched(s, num, c, RunEnd(s, c, "not_newline"))
    ELSE IF c > b + 1 THEN Matched(s, num, Len(s), Len(s) + 1)
    ELSE NoMatch

\* (\d+)\. of line 447 from position a, the digits ending before position b.
StrictNumber(s, a, b) ==
    IF b > a /\ b <= Len(s) /\ s[b] = "." THEN StrictText(s, SubSeq(s, a, b - 1), b + 1, RunEnd(s, b + 1, "space")) ELSE NoMatch

StrictBlanks(s, a) == StrictNumber(s, a, RunEnd(s, a, "digit"))

\* Line 447: ^\s*(\d+)\.\s+(.+?)(?=\n\s*\d+\.|$) with MULTILINE and DOTALL,
\* tried at position p.  \s* and \s+ run over line ends.
StrictMatch(s, p) == IF AtLineStart(s, p) THEN StrictBlanks(s, RunEnd(s, p, "space")) ELSE NoMatch

\* The last position of s from position b on that holds no line end, or 0.
LastOnLine(s, b) == IF \E t \in b..Len(s) : s[t] # "\n" THEN Max({t \in b..Len(s) : s[t] # "\n"}) ELSE 0

\* The group (.+)$ of line 456 after the blanks \s* that run from position
\* b to position c.  When the blanks reach the end of the text, \s* gives
\* the group the last span of them that holds no line end, from position t.
LooseText(s, num, c, t) ==
    IF c <= Len(s) THEN Matched(s, num, c, RunEnd(s, c, "not_newline"))
    ELSE IF t > 0 THEN Matched(s, num, t, RunEnd(s, t, "not_newline"))
    ELSE NoMatch

LooseNumber(s, p, b) ==
    IF b > p /\ b <= Len(s) /\ s[b] = "." THEN LooseText(s, SubSeq(s, p, b - 1), RunEnd(s, b + 1, "space"), LastOnLine(s, b + 1)) ELSE NoMatch

\* Line 456: ^(\d+)\.\s*(.+)$ with MULTILINE, tried at position p.
LooseMatch(s, p) == IF AtLineStart(s, p) THEN LooseNumber(s, p, RunEnd(s, p, "digit")) ELSE NoMatch

MatchAt(s, p, strict) == IF strict THEN StrictMatch(s, p) ELSE LooseMatch(s, p)

\* The positions from p on at which the pattern matches.
MatchStarts(s, p, strict) == {q \in p..Len(s) : MatchAt(s, q, strict).ok}

\* re.findall from position p on: the matches, left to right, none
\* overlapping another.
RECURSIVE FindAll(_, _, _)
MatchAndRest(s, match, strict) == <<match>> \o FindAll(s, match.end, strict)

FindFrom(s, starts, strict) == IF starts = {} THEN <<>> ELSE MatchAndRest(s, MatchAt(s, Min(starts), strict), strict)

FindAll(s, p, strict) == FindFrom(s, MatchStarts(s, p, strict), strict)

\* Line 450: text.split('\n')[0].strip()
CleanText(text) == Strip(SplitLines(text)[1])

\* Lines 449-452: the steps of the matches found, those kept whose text is
\* not empty and starts with no dash.
CleanSteps(found) ==
    {<<ParseInt(found[i].num), CleanText(found[i].text)>> : i \in {j \in 1..Len(found) : CleanText(found[j].text) # <<>> /\ Head(CleanText(found[j].text)) # "-"}}

\* Lines 447-452: the steps of the strict pattern.
StrictSteps(text) == CleanSteps(FindAll(text, 1, TRUE))

\* Lines 457-458: the steps of the matches found.
StrippedSteps(found) == {<<ParseInt(found[i].num), Strip(found[i].text)>> : i \in 1..Len(found)}

\* Lines 455-458: the steps of the looser pattern.
LooseSteps(text) == StrippedSteps(FindAll(text, 1, FALSE))

\* Mutant of StepOrders: the steps in any order.
StepOrdersUnsorted(steps) ==
    {order \in [1..Cardinality(steps) -> steps] : \A i, j \in 1..Cardinality(steps) : order[i] = order[j] => i = j}

\* Line 461: sorted(set(steps), key=lambda x: x[0]).  The sort is stable
\* over the order in which the set yields its elements, which the hashes of
\* the texts decide: steps of one number may come in any order.
StepOrders(steps) ==
    {order \in [1..Cardinality(steps) -> steps] :
        /\ \A i, j \in 1..Cardinality(steps) : order[i] = order[j] => i = j
        /\ \A i, j \in 1..Cardinality(steps) : i < j => order[i][1] <= order[j][1]}

HasText(step) == step[2] # <<>>

\* Lines 463-473: the Workflow of the steps kept, those with a text.  The
\* texts given here bear no workflow type field and no decision row.
WorkflowOf(kept) ==
    [workflow_type |-> PyNone,
     high_level_steps |-> [i \in 1..Len(kept) |-> kept[i][2]],
     detailed_step_log |-> [i \in 1..Len(kept) |-> [step_number |-> kept[i][1], action |-> kept[i][2], tool_command |-> PyNone, input |-> PyNone, output |-> PyNone]],
     decision_points |-> <<>>]

Workflow(order) == WorkflowOf(SelectSeq(order, HasText))

\* Lines 455 and 461-473: the Workflows of the steps, those of the looser
\* pattern when the strict pattern gave none.
WorkflowsOf(strict, loose) == {Workflow(order) : order \in StepOrders(IF strict # {} THEN strict ELSE loose)}

\* Lines 443-473: the Workflows extract_workflow may return.
ExtractWorkflow(text) == WorkflowsOf(StrictSteps(text), LooseSteps(text))

(***************************************************************************)
(* SpecWorkflow: extract_workflow on a text of at most MaxWorkflowLines    *)
(* lines.                                                                  *)
(***************************************************************************)
MaxWorkflowLines == 3

\* Items, one of them twice with other spacing, two items of one number, an
\* item that is a sub-bullet, one without a space after the dot, one
\* without text, a line that is no item and a blank line.
WorkflowLines == {
    <<"1", ".", " ", "R", "e", "a", "d", " ", "f", "i", "l", "e">>,
    <<"2", ".", " ", "R", "u", "n", " ", "t", "e", "s", "t", "s">>,
    <<"3", ".", " ", "F", "i", "x", " ", "b", "u", "g">>,
    <<"1", ".", " ", "R", "e", "t", "r", "y">>,
    <<" ", "2", ".", " ", " ", "R", "u", "n", " ", "t", "e", "s", "t", "s", " ">>,
    <<"2", ".", " ", "-", " ", "s", "k", "i", "p", "p", "e", "d">>,
    <<"4", ".", "d", "o", "n", "e">>,
    <<"5", ".">>,
    <<"n", "o", "t", "e", "s">>,
    <<>>
}

WorkflowTexts == {Join(S_newline, ls) : ls \in UNION {[1..n -> WorkflowLines] : n \in 0..MaxWorkflowLines}}

InitWorkflow ==
    /\ pc = "extract_workflow"
    /\ arg \in {Str(t) : t \in WorkflowTexts}
    /\ doc_content = PyNone
    /\ parser_format = PyNone
    /\ extraction = PyNone
    /\ retval = PyNone
    /\ ParserIdle /\ BatchIdle /\ ClusterIdle /\ PipelineIdle /\ IncrementalIdle

CallExtractWorkflow ==
    /\ pc = "extract_workflow"
    /\ pc' = "workflow"
    /\ retval' \in ExtractWorkflow(arg.s)
    /\ UNCHANGED <<doc_content, parser_format, extraction, arg>>
    /\ UNCHANGED <<parserVars, batchVars, clusterVars, pipelineVars, incrementalVars>>

NextWorkflow == CallExtractWorkflow

SpecWorkflow == InitWorkflow /\ [][NextWorkflow]_vars

\* A line that is nothing but a numbered-list item: a number, a dot, one
\* space, and a text that starts with neither a blank nor a dash and ends
\* with no blank.
IsPlainItem(line) ==
    LET b == RunEnd(line, 1, "digit")
    IN  /\ b > 1 /\ b + 2 <= Len(line)
        /\ line[b] = "." /\ line[b + 1] = " "
        /\ ~IsSpace(line[b + 2]) /\ line[b + 2] # "-"
        /\ ~IsSpace(line[Len(line)])

ItemNumber(line) == ParseInt(SubSeq(line, 1, RunEnd(line, 1, "digit") - 1))
ItemText(line) == SubSeq(line, RunEnd(line, 1, "digit") + 2, Len(line))

\* C19: extract_workflow returns the texts of the numbered-list items of
\* its text with duplicate (number, text) pairs removed and in ascending
\* order of step number; detailed_step_log holds, in that order, one entry
\* per step with its step_number and its text as action; the looser line
\* pattern gives the steps only when the strict pattern gives none.  The
\* text "1. Read file", "2. Run tests", "3. Fix bug" on three lines gives
\* the steps Read file, Run tests, Fix bug.
C19_WorkflowStepsDedupedSorted ==
    pc = "workflow" =>
        LET log == retval.detailed_step_log
            hls == retval.high_level_steps
            lines == SplitLines(arg.s)
            logged == {<<log[i].step_number, log[i].action>> : i \in 1..Len(log)}
            NonEmpty(steps) == {st \in steps : st[2] # <<>>}
        IN  /\ Len(hls) = Len(log)
            /\ \A i \in 1..Len(log) : log[i].action = hls[i] /\ hls[i] # <<>>
            /\ \A i, j \in 1..Len(log) : i < j => log[i].step_number <= log[j].step_number
            /\ \A i, j \in 1..Len(log) : i # j => <<log[i].step_number, log[i].action>> # <<log[j].step_number, log[j].action>>
            /\ StrictSteps(arg.s) # {} => logged = StrictSteps(arg.s)
            /\ StrictSteps(arg.s) = {} => logged = NonEmpty(LooseSteps(arg.s))
            /\ (\A i \in 1..Len(lines) : IsPlainItem(lines[i]))
                   => logged = {<<ItemNumber(lines[i]), ItemText(lines[i])>> : i \in 1..Len(lines)}
            /\ arg.s = <<"1", ".", " ", "R", "e", "a", "d", " ", "f", "i", "l", "e", "\n", "2", ".", " ", "R", "u", "n", " ", "t", "e", "s", "t", "s", "\n", "3", ".", " ", "F", "i", "x", " ", "b", "u", "g">>
                   => hls = <<<<"R", "e", "a", "d", " ", "f", "i", "l", "e">>, <<"R", "u", "n", " ", "t", "e", "s", "t", "s">>, <<"F", "i", "x", " ", "b", "u", "g">>>>

\* Witness of C19: items out of order, one of them twice, come back sorted
\* and once each.
C19_Witness ==
    /\ pc = "workflow"
    /\ arg = Str(<<"2", ".", " ", "R", "u", "n", " ", "t", "e", "s", "t", "s", "\n", "1", ".", " ", "R", "e", "a", "d", " ", "f", "i", "l", "e", "\n", "2", ".", " ", "R", "u", "n", " ", "t", "e", "s", "t", "s">>)
    /\ retval.high_level_steps = <<<<"R", "e", "a", "d", " ", "f", "i", "l", "e">>, <<"R", "u", "n", " ", "t", "e", "s", "t", "s">>>>
    /\ Len(retval.detailed_step_log) = 2
    /\ retval.detailed_step_log[1].step_number = 1
    /\ retval.detailed_step_log[2].step_number = 2

(***************************************************************************)
(* ContentExtractor.extract_skill_assessment (lines 696-745).              *)
(***************************************************************************)
S_priority == <<"p", "r", "i", "o", "r", "i", "t", "y">>
S_checked == <<"[", "x", "]">>
S_skill_potential == <<"s", "k", "i", "l", "l", " ", "p", "o", "t", "e", "n", "t", "i", "a", "l", ":">>
S_notes_field == <<"*", "*", "n", "o", "t", "e", "s", "*", "*", ":">>
S_note_field == <<"*", "*", "n", "o", "t", "e", "*", "*", ":">>
S_high == <<"h", "i", "g", "h">>
S_medium == <<"m", "e", "d", "i", "u", "m">>
S_low == <<"l", "o", "w">>
S_TOTAL == <<"T", "O", "T", "A", "L">>
S_Total == <<"T", "o", "t", "a", "l">>
S_frequency == <<"f", "r", "e", "q", "u", "e", "n", "c", "y">>
S_consistency == <<"c", "o", "n", "s", "i", "s", "t", "e", "n", "c", "y">>
S_complexity == <<"c", "o", "m", "p", "l", "e", "x", "i", "t", "y">>
S_codifiability == <<"c", "o", "d", "i", "f", "i", "a", "b", "i", "l", "i", "t", "y">>
S_toolability == <<"t", "o", "o", "l", "a", "b", "i", "l", "i", "t", "y">>
S_tool_ability == <<"t", "o", "o", "l", "-", "a", "b", "i", "l", "i", "t", "y">>

\* The literal lit stands at position p of s; ci: under re.IGNORECASE, lit
\* being in lower case.
LitAt(s, p, lit, ci) ==
    /\ p + Len(lit) - 1 <= Len(s)
    /\ \A j \in 1..Len(lit) : (IF ci THEN LowerOf(s[p + j - 1])[1] ELSE s[p + j - 1]) = lit[j]

\* key[^|]*\|\s*(\d) tried at position p: the position of the digit, or 0.
ScoreAt(s, p, key, ci) ==
    LET bar == RunEnd(s, p + Len(key), "not_bar")
        d == RunEnd(s, bar + 1, "space")
    IN  IF LitAt(s, p, key, ci) /\ bar <= Len(s) /\ d <= Len(s) /\ IsDigit(s[d]) THEN d ELSE 0

\* re.search of (?:key|key)[^|]*\|\s*(\d) or, with many, of ...(\d+): the
\* number read at the leftmost match, or None.
SearchScore(s, keys, ci, many) ==
    LET at == {p \in 1..Len(s) : \E key \in keys : ScoreAt(s, p, key, ci) > 0}
        p == CHOOSE p \in at : \A q \in at : p <= q
        d == ScoreAt(s, p, CHOOSE key \in keys : ScoreAt(s, p, key, ci) > 0, ci)
    IN  IF at = {} THEN PyNone
        ELSE Num(ParseInt(SubSeq(s, d, IF many THEN RunEnd(s, d, "digit") - 1 ELSE d)))

\* Line 722: \[x\]\s*\*?\*?(\w+)\s*Priority under IGNORECASE, tried at
\* position p: the label, or None.  \w+ takes the longest run of word
\* characters after which \s*Priority still matches.
PriorityAt(s, p) ==
    LET a0 == RunEnd(s, p + 3, "space")
        IsStar(i) == i <= Len(s) /\ s[i] = "*"
        a == IF IsStar(a0) THEN (IF IsStar(a0 + 1) THEN a0 + 2 ELSE a0 + 1) ELSE a0
        e == RunEnd(s, a, "word")
        ends == {k \in (a + 1)..e : LitAt(s, IF k = e THEN RunEnd(s, e, "space") ELSE k, S_priority, TRUE)}
        k == CHOOSE k \in ends : \A j \in ends : j <= k
    IN  IF LitAt(s, p, S_checked, TRUE) /\ ends # {} THEN Str(SubSeq(s, a, k - 1)) ELSE PyNone

\* Line 728: Skill Potential:\s*(\w+) under IGNORECASE, tried at position
\* p: the level, or None.
PotentialAt(s, p) ==
    LET w == RunEnd(s, p + Len(S_skill_potential), "space")
    IN  IF LitAt(s, p, S_skill_potential, TRUE) /\ RunEnd(s, w, "word") > w
        THEN Str(SubSeq(s, w, RunEnd(s, w, "word") - 1))
        ELSE PyNone

\* The end of the lines (?:\n(?!\*\*)[^\n]+)* adds to a group that ends
\* before position q.
RECURSIVE NotesEnd(_, _)
NotesEnd(s, q) ==
    IF q + 1 <= Len(s) /\ s[q + 1] # "\n" /\ ~LitAt(s, q + 1, <<"*", "*">>, FALSE)
    THEN NotesEnd(s, RunEnd(s, q + 1, "not_newline"))
    ELSE q

\* Line 740: \*\*Notes?\*\*:\s*([^\n]+(?:\n(?!\*\*)[^\n]+)*) under
\* IGNORECASE, tried at position p: the group, or None.  When only blanks
\* follow the colon, \s* gives the group one of them that is no line end.
NotesAt(s, p) ==
    LET e == IF LitAt(s, p, S_notes_field, TRUE) THEN p + Len(S_notes_field) ELSE p + Len(S_note_field)
        w == RunEnd(s, e, "space")
    IN  IF ~(LitAt(s, p, S_notes_field, TRUE) \/ LitAt(s, p, S_note_field, TRUE)) THEN PyNone
        ELSE IF w <= Len(s) THEN Str(SubSeq(s, w, NotesEnd(s, RunEnd(s, w, "not_newline")) - 1))
        ELSE IF \E t \in e..Len(s) : s[t] # "\n" THEN Str(<<" ">>)
        ELSE PyNone

S_date_field == <<"*", "*", "D", "a", "t", "e", "*", "*", ":">>

\* Line 305: \*\*Date\*\*:\s*(\d{4}-\d{2}-\d{2}) tried at position p: the
\* date, or None.
DateAt(s, p) ==
    LET w == RunEnd(s, p + Len(S_date_field), "space")
        IsDate(d) == \A i \in 1..10 : IF i \in {5, 8} THEN d[i] = "-" ELSE IsDigit(d[i])
    IN  IF LitAt(s, p, S_date_field, FALSE) /\ w + 9 <= Len(s) /\ IsDate(SubSeq(s, w, w + 9))
        THEN Str(SubSeq(s, w, w + 9))
        ELSE PyNone

\* The group of the named pattern tried at position p, or None.
GroupAt(s, p, pattern) ==
    CASE pattern = "priority" -> PriorityAt(s, p)
      [] pattern = "potential" -> PotentialAt(s, p)
      [] pattern = "notes" -> NotesAt(s, p)
      [] pattern = "date" -> DateAt(s, p)

\* re.search: the group of the leftmost match of the named pattern, or
\* None.
Search(s, pattern) ==
    LET at == {p \in 1..Len(s) : GroupAt(s, p, pattern) # PyNone}
    IN  IF at = {} THEN PyNone ELSE GroupAt(s, CHOOSE p \in at : \A q \in at : p <= q, pattern)

\* Lines 730-737: the priority a "Skill Potential" level gives.
PotentialPriority(potential) ==
    IF potential = S_high THEN Str(S_high)
    ELSE IF potential = S_medium THEN Str(S_medium)
    ELSE Str(S_low)

\* Lines 721-737: extraction_priority.  The "Skill Potential" line is read
\* after the checked box and overwrites what the box gave.
ExtractionPriority(content) ==
    IF Search(content, "potential") # PyNone THEN PotentialPriority(Lower(Search(content, "potential").s))
    ELSE IF Search(content, "priority") # PyNone THEN Str(Lower(Search(content, "priority").s))
    ELSE PyNone

ExtractSkillAssessment(content) ==
    [reusability_score |-> SearchScore(content, {S_TOTAL, S_Total}, FALSE, TRUE),
     frequency_score |-> SearchScore(content, {S_frequency}, TRUE, FALSE),
     consistency_score |-> SearchScore(content, {S_consistency}, TRUE, FALSE),
     complexity_score |-> SearchScore(content, {S_complexity}, TRUE, FALSE),
     codifiability_score |-> SearchScore(content, {S_codifiability}, TRUE, FALSE),
     toolability_score |-> SearchScore(content, {S_toolability, S_tool_ability}, TRUE, FALSE),
     extraction_priority |-> ExtractionPriority(content),
     notes |-> IF Search(content, "notes") = PyNone THEN PyNone ELSE Str(Strip(Search(content, "notes").s))]

(***************************************************************************)
(* SpecAssessment: extract_skill_assessment on a text of at most           *)
(* MaxAssessmentLines lines.                                               *)
(***************************************************************************)
MaxAssessmentLines == 3

\* A total row, checked and unchecked priority boxes, "Skill Potential"
\* lines of the three outcomes, score rows, a notes field, a blank line.
AssessmentLines == {
    <<"|", " ", "*", "*", "T", "O", "T", "A", "L", "*", "*", " ", "|", " ", "2", "5", " ", "|">>,
    <<"-", " ", "[", "x", "]", " ", "*", "*", "H", "i", "g", "h", " ", "P", "r", "i", "o", "r", "i", "t", "y", "*", "*">>,
    <<"-", " ", "[", "X", "]", " ", "m", "e", "d", "i", "u", "m", " ", "p", "r", "i", "o", "r", "i", "t", "y">>,
    <<"-", " ", "[", " ", "]", " ", "L", "o", "w", " ", "P", "r", "i", "o", "r", "i", "t", "y">>,
    <<"S", "k", "i", "l", "l", " ", "P", "o", "t", "e", "n", "t", "i", "a", "l", ":", " ", "l", "o", "w">>,
    <<"s", "k", "i", "l", "l", " ", "p", "o", "t", "e", "n", "t", "i", "a", "l", ":", " ", "H", "I", "G", "H">>,
    <<"S", "k", "i", "l", "l", " ", "P", "o", "t", "e", "n", "t", "i", "a", "l", ":", " ", "u", "n", "s", "u", "r", "e">>,
    <<"|", " ", "F", "r", "e", "q", "u", "e", "n", "c", "y", " ", "|", " ", "3", " ", "|">>,
    <<"|", " ", "T", "o", "o", "l", "-", "a", "b", "i", "l", "i", "t", "y", " ", "(", "1", "-", "5", ")", " ", "|", " ", "4", " ", "|">>,
    <<"*", "*", "N", "o", "t", "e", "s", "*", "*", ":", " ", "r", "e", "u", "s", "a", "b", "l", "e">>,
    <<>>
}

AssessmentTexts == {Join(S_newline, ls) : ls \in UNION {[1..n -> AssessmentLines] : n \in 0..MaxAssessmentLines}}

InitAssessment ==
    /\ pc = "extract_skill_assessment"
    /\ arg \in {Str(t) : t \in AssessmentTexts}
    /\ doc_content = PyNone
    /\ parser_format = PyNone
    /\ extraction = PyNone
    /\ retval = PyNone
    /\ ParserIdle /\ BatchIdle /\ ClusterIdle /\ PipelineIdle /\ IncrementalIdle

CallExtractSkillAssessment ==
    /\ pc = "extract_skill_assessment"
    /\ pc' = "assessment"
    /\ retval' = ExtractSkillAssessment(arg.s)
    /\ UNCHANGED <<doc_content, parser_format, extraction, arg>>
    /\ UNCHANGED <<parserVars, batchVars, clusterVars, pipelineVars, incrementalVars>>

NextAssessment == CallExtractSkillAssessment

SpecAssessment == InitAssessment /\ [][NextAssessment]_vars

\* C14: extraction_priority is decided by the first present of: the numeric
\* total score, the checked priority box, the "Skill Potential" line; a
\* later source never overrides an earlier one.  A text with a checked
\* "High Priority" box and a "Skill Potential: low" line gets high.
C14_PriorityFirstPresentWins ==
    pc = "assessment" =>
        LET total == retval.reusability_score
            box == Search(arg.s, "priority")
            potential == Search(arg.s, "potential")
        IN  /\ total # PyNone => retval.extraction_priority # PyNone
            /\ (total = PyNone /\ box # PyNone) => retval.extraction_priority = Str(Lower(box.s))
            /\ (total = PyNone /\ box = PyNone /\ potential # PyNone) => retval.extraction_priority = PotentialPriority(Lower(potential.s))
            /\ (total = PyNone /\ box = PyNone /\ potential = PyNone) => retval.extraction_priority = PyNone
            /\ arg.s = <<"-", " ", "[", "x", "]", " ", "*", "*", "H", "i", "g", "h", " ", "P", "r", "i", "o", "r", "i", "t", "y", "*", "*", "\n", "S", "k", "i", "l", "l", " ", "P", "o", "t", "e", "n", "t", "i", "a", "l", ":", " ", "l", "o", "w">> => retval.extraction_priority = Str(S_high)

(***************************************************************************)
(* ContentExtractor.extract_tags (lines 747-805) and deduplicate_list      *)
(* (lines 176-185).                                                        *)
(***************************************************************************)
S_none == <<"n", "o", "n", "e">>

\* The field names a tag pattern accepts before its colon: a stem, each of
\* the optional endings, the optional closing "**".
FieldHeads(stems, endings) == {stem \o ending \o mark \o <<":">> : stem \in stems, ending \in endings, mark \in {<<>>, <<"*", "*">>}}

LANGUAGES_HEADS == FieldHeads({<<"l", "a", "n", "g", "u", "a", "g", "e">>}, {<<>>, <<"s">>})
FRAMEWORKS_HEADS == FieldHeads({<<"f", "r", "a", "m", "e", "w", "o", "r", "k">>}, {<<>>, <<"s">>, <<"/", "l", "i", "b">>, <<"/", "l", "i", "b", "s">>, <<"s", "/", "l", "i", "b">>, <<"s", "/", "l", "i", "b", "s">>})
DOMAINS_HEADS == FieldHeads({<<"d", "o", "m", "a", "i", "n">>}, {<<>>, <<"s">>})
SERVICES_HEADS == FieldHeads({<<"s", "e", "r", "v", "i", "c", "e">>}, {<<>>, <<"s">>})
PATTERNS_HEADS == FieldHeads({<<"p", "a", "t", "t", "e", "r", "n">>}, {<<>>, <<"s">>})
TOOLS_HEADS == FieldHeads({<<"t", "o", "o", "l">>}, {<<>>, <<"s">>}) \cup FieldHeads({<<"o", "p", "e", "r", "a", "t", "i", "o", "n", "a", "l">>}, {<<>>})

\* (?:\*\*)?Field(?:\*\*)?:\s*([^|\n]+) under IGNORECASE, tried with the
\* field name at position p: the group, or None.  When the blanks after the
\* colon run into a bar or the end of the text, \s* gives the group the
\* last of them that is no line end.
TagFieldAt(s, p, heads) ==
    LET e == p + Len(CHOOSE head \in heads : LitAt(s, p, head, TRUE))
        w == RunEnd(s, e, "space")
        back == {t \in e..(w - 1) : s[t] # "\n"}
    IN  IF ~(\E head \in heads : LitAt(s, p, head, TRUE)) THEN PyNone
        ELSE IF w <= Len(s) /\ s[w] # "|" THEN Str(SubSeq(s, w, RunEnd(s, w, "not_bar_nor_newline") - 1))
        ELSE IF back # {} THEN Str(<<s[CHOOSE t \in back : \A u \in back : u <= t]>>)
        ELSE PyNone

\* re.search of a tag pattern: the group of the leftmost match, or None.
SearchTagField(s, heads) ==
    LET at == {p \in 1..Len(s) : TagFieldAt(s, p, heads) # PyNone}
    IN  IF at = {} THEN PyNone ELSE TagFieldAt(s, CHOOSE p \in at : \A q \in at : p <= q, heads)

\* re.split(r'[,;]', s)
RECURSIVE SplitTags(_)
SplitTags(s) ==
    IF \A i \in 1..Len(s) : s[i] \notin {",", ";"} THEN <<s>>
    ELSE LET i == CHOOSE i \in 1..Len(s) : s[i] \in {",", ";"} /\ \A j \in 1..(i - 1) : s[j] \notin {",", ";"}
         IN  <<SubSeq(s, 1, i - 1)>> \o SplitTags(Drop(s, i))

\* deduplicate_list: the first of the items of each lowered, stripped text.
RECURSIVE DeduplicateList(_)
\* Mutant of DeduplicateList: the items are compared as they are.
DeduplicateListExact(items) ==
    IF items = <<>> THEN <<>>
    ELSE IF \E i \in 1..(Len(items) - 1) : items[i] = items[Len(items)]
    THEN DeduplicateList(SubSeq(items, 1, Len(items) - 1))
    ELSE Append(DeduplicateList(SubSeq(items, 1, Len(items) - 1)), items[Len(items)])

DeduplicateList(items) ==
    IF items = <<>> THEN <<>>
    ELSE LET front == SubSeq(items, 1, Len(items) - 1)
             normalized(item) == Strip(Lower(item))
         IN  IF \E i \in 1..Len(front) : normalized(front[i]) = normalized(items[Len(items)])
             THEN DeduplicateList(front)
             ELSE Append(DeduplicateList(front), items[Len(items)])

\* One tag list: the normalized tags of the field, None dropping the tag
\* "none" as the services field does.
TagList(content, heads, drop_none) ==
    LET found == SearchTagField(content, heads)
        raw_tags == SplitTags(found.s)
        Kept(t) == Strip(t) # <<>> /\ (drop_none => Lower(Strip(t)) # S_none)
        kept == SelectSeq(raw_tags, Kept)
    IN  IF found = PyNone THEN <<>>
        ELSE DeduplicateList([i \in 1..Len(kept) |-> NormalizeTag(kept[i])])

ExtractTags(content) ==
    [languages |-> TagList(content, LANGUAGES_HEADS, FALSE),
     frameworks |-> TagList(content, FRAMEWORKS_HEADS, FALSE),
     tools |-> TagList(content, TOOLS_HEADS, FALSE),
     domains |-> TagList(content, DOMAINS_HEADS, FALSE),
     patterns |-> TagList(content, PATTERNS_HEADS, FALSE),
     services |-> TagList(content, SERVICES_HEADS, TRUE)]

(***************************************************************************)
(* SRPTDExtractor (lines 853-1037) and generate_doc_id (lines 188-192).    *)
(* The extraction carries the fields the properties read: doc_id,          *)
(* source_path, format_detected, raw_sections, metadata.date,              *)
(* trigger.what_triggered, workflow.high_level_steps, code_written.blocks, *)
(* tags and parse_warnings.                                                *)
(***************************************************************************)
\* A path is the sequence of its names, the file name last.
Name(path) == path[Len(path)]

\* Path(...).stem: the name without its last suffix.
Stem(name) ==
    LET dots == {i \in 2..(Len(name) - 1) : name[i] = "."}
    IN  IF dots = {} THEN name ELSE SubSeq(name, 1, (CHOOSE i \in dots : \A j \in dots : j <= i) - 1)

\* Lines 188-192: generate_doc_id.  The text is "<stem>_<digest>"; the
\* digest, the first 8 hexadecimal digits of the MD5 of the content, is kept
\* as the term md5 of the content, so that equal contents have equal digests
\* and different contents different ones.
GenerateDocId(source_path, content) == [stem |-> Stem(Name(source_path)), digest |-> [md5 |-> content]]

HEADER_SPAN == 1000
TAGS_TAIL_SPAN == 1000

S_unmodelled == <<"?">>

\* Lines 304-307 and 333-337: metadata.date.  A match of the bulleted
\* pattern of line 334 holds a match of the pattern of line 305, so the
\* date is the one the pattern of line 305 finds.
MetadataDate(header_content) == Search(header_content, "date")

\* Lines 900-916 with extract_trigger and extract_context: what_triggered,
\* whose patterns are not computed here.  Each source of it needs one of
\* these marks in the document; a document with one of them may get any
\* value.
WhatTriggered(content) ==
    IF \/ HasSub(content, <<">">>)
       \/ HasSub(Lower(content), <<"*", "*", "w", "h", "a", "t", " ", "t", "r", "i", "g", "g", "e", "r", "e", "d">>)
       \/ HasSub(content, <<"*", "*", "O", "b", "j", "e", "c", "t", "i", "v", "e", "*", "*", ":">>)
       \/ HasSub(content, <<"*", "*", "R", "e", "q", "u", "i", "r", "e", "m", "e", "n", "t">>)
    THEN {PyNone, Str(<<>>), Str(S_unmodelled)}
    ELSE {PyNone}

\* Lines 950-965 with extract_code_blocks, whose pattern is not computed
\* here: a document without a code fence has no block; one with a fence may
\* have none or some.
CodeBlocks(content) ==
    IF HasSub(content, <<"BACKTICK", "BACKTICK", "BACKTICK">>)
    THEN {<<>>, <<[language |-> PyNone, code |-> S_unmodelled, heading |-> PyNone, reuse_flag |-> FALSE, notes |-> PyNone]>>}
    ELSE {<<>>}

\* Lines 924-939: the text the workflow is read from.
WorkflowContent(sections, format) ==
    LET named == {i \in 1..Len(sections) : HasSub(Lower(sections[i][1]), <<"w", "o", "r", "k">>) \/ HasSub(Lower(sections[i][1]), <<"s", "t", "e", "p">>)}
        workflow_content ==
            IF DictGet(sections, <<"w", "o", "r", "k", "f", "l", "o", "w">>, <<>>) # <<>> THEN DictGet(sections, <<"w", "o", "r", "k", "f", "l", "o", "w">>, <<>>)
            ELSE IF named # {} THEN sections[CHOOSE i \in named : \A j \in named : i <= j][2]
            ELSE <<>>
        header_raw == DictGet(sections, <<"h", "e", "a", "d", "e", "r">>, <<>>)
    IN  IF workflow_content = <<>> /\ format = "legacy" /\ HasSub(header_raw, <<"1", ".", " ">>)
        THEN header_raw
        ELSE workflow_content

\* Mutant of GenerateWarnings: the domain tags are not looked at.
WarningsWithoutDomains(x) ==
    (IF x.metadata.date \in {PyNone, Str(<<>>)} THEN <<<<"M", "i", "s", "s", "i", "n", "g", ":", " ", "m", "e", "t", "a", "d", "a", "t", "a", ".", "d", "a", "t", "e">>>> ELSE <<>>)
    \o (IF x.trigger.what_triggered \in {PyNone, Str(<<>>)} THEN <<<<"M", "i", "s", "s", "i", "n", "g", ":", " ", "t", "r", "i", "g", "g", "e", "r", ".", "w", "h", "a", "t", "_", "t", "r", "i", "g", "g", "e", "r", "e", "d">>>> ELSE <<>>)
    \o (IF x.workflow.high_level_steps = <<>> THEN <<<<"M", "i", "s", "s", "i", "n", "g", ":", " ", "w", "o", "r", "k", "f", "l", "o", "w", ".", "h", "i", "g", "h", "_", "l", "e", "v", "e", "l", "_", "s", "t", "e", "p", "s">>>> ELSE <<>>)
    \o (IF x.code_written.blocks = <<>> THEN <<<<"E", "m", "p", "t", "y", ":", " ", "c", "o", "d", "e", "_", "w", "r", "i", "t", "t", "e", "n", ".", "b", "l", "o", "c", "k", "s">>>> ELSE <<>>)
    \o (IF x.tags.languages = <<>> THEN <<<<"M", "i", "s", "s", "i", "n", "g", ":", " ", "t", "a", "g", "s", ".", "l", "a", "n", "g", "u", "a", "g", "e", "s">>>> ELSE <<>>)

\* Lines 1015-1037: _generate_warnings
GenerateWarnings(x) ==
    (IF x.metadata.date \in {PyNone, Str(<<>>)} THEN <<<<"M", "i", "s", "s", "i", "n", "g", ":", " ", "m", "e", "t", "a", "d", "a", "t", "a", ".", "d", "a", "t", "e">>>> ELSE <<>>)
    \o (IF x.trigger.what_triggered \in {PyNone, Str(<<>>)} THEN <<<<"M", "i", "s", "s", "i", "n", "g", ":", " ", "t", "r", "i", "g", "g", "e", "r", ".", "w", "h", "a", "t", "_", "t", "r", "i", "g", "g", "e", "r", "e", "d">>>> ELSE <<>>)
    \o (IF x.workflow.high_level_steps = <<>> THEN <<<<"M", "i", "s", "s", "i", "n", "g", ":", " ", "w", "o", "r", "k", "f", "l", "o", "w", ".", "h", "i", "g", "h", "_", "l", "e", "v", "e", "l", "_", "s", "t", "e", "p", "s">>>> ELSE <<>>)
    \o (IF x.code_written.blocks = <<>> THEN <<<<"E", "m", "p", "t", "y", ":", " ", "c", "o", "d", "e", "_", "w", "r", "i", "t", "t", "e", "n", ".", "b", "l", "o", "c", "k", "s">>>> ELSE <<>>)
    \o (IF x.tags.languages = <<>> THEN <<<<"M", "i", "s", "s", "i", "n", "g", ":", " ", "t", "a", "g", "s", ".", "l", "a", "n", "g", "u", "a", "g", "e", "s">>>> ELSE <<>>)
    \o (IF x.tags.domains = <<>> THEN <<<<"M", "i", "s", "s", "i", "n", "g", ":", " ", "t", "a", "g", "s", ".", "d", "o", "m", "a", "i", "n", "s">>>> ELSE <<>>)

\* Lines 876-1013: the extractions extract may return for the content
\* loaded from source_path.
Extract(source_path, content, format) ==
    LET sections == ExtractSections(content, format)
        header_content == DictGet(sections, <<"h", "e", "a", "d", "e", "r">>, <<>>) \o S_newline \o Take(content, HEADER_SPAN)
        tags_content == DictGet(sections, <<"t", "a", "g", "s">>, <<>>) \o S_newline \o TakeLast(content, TAGS_TAIL_SPAN)
        date == MetadataDate(header_content)
        tags == ExtractTags(tags_content)
        Fields(what_triggered, workflow, blocks) ==
            [doc_id |-> GenerateDocId(source_path, content),
             source_path |-> source_path,
             format_detected |-> format,
             raw_sections |-> sections,
             metadata |-> [date |-> date],
             trigger |-> [what_triggered |-> what_triggered],
             workflow |-> [high_level_steps |-> workflow.high_level_steps],
             code_written |-> [blocks |-> blocks],
             tags |-> tags]
    IN  {[parse_warnings |-> GenerateWarnings(x)] @@ x :
            x \in {Fields(what_triggered, workflow, blocks) :
                      what_triggered \in WhatTriggered(content),
                      workflow \in ExtractWorkflow(WorkflowContent(sections, format)),
                      blocks \in CodeBlocks(content)}}

(***************************************************************************)
(* SpecExtract: SRPTDExtractor(SOURCE_PATH), load() and extract(), on a    *)
(* file of at most MaxTagDocLines lines.                                   *)
(***************************************************************************)
MaxTagDocLines == 3

SOURCE_PATH == <<<<"S", "R", "-", "P", "T", "D", "_", "d", "o", "c", ".", "m", "d">>>>

\* The tags header, tag fields, a field that gives no tag, another section
\* with a step, a title and a blank line.
TagDocLines == {
    <<"#", "#", " ", "T", "a", "g", "s">>,
    <<"*", "*", "L", "a", "n", "g", "u", "a", "g", "e", "s", "*", "*", ":", " ", "P", "y", "t", "h", "o", "n", ",", " ", "G", "o">>,
    <<"*", "*", "D", "o", "m", "a", "i", "n", "*", "*", ":", " ", "a", "p", "i", " ", "|", " ", "*", "*", "P", "a", "t", "t", "e", "r", "n", "*", "*", ":", " ", "r", "e", "t", "r", "y">>,
    <<"T", "o", "o", "l", "s", ":", " ", "n", "o", "n", "e">>,
    <<"#", "#", " ", "W", "o", "r", "k", "f", "l", "o", "w">>,
    <<"1", ".", " ", "R", "e", "a", "d", " ", "f", "i", "l", "e">>,
    <<"#", " ", "D", "o", "c">>,
    <<>>
}

TagFiller == [i \in 1..TAGS_TAIL_SPAN |-> "x"]

\* The files of at most MaxTagDocLines lines, and those with a line more
\* than TAGS_TAIL_SPAN characters before an empty tags section.
TagDocuments ==
    {Join(S_newline, ls) : ls \in UNION {[1..n -> TagDocLines] : n \in 0..MaxTagDocLines}}
    \cup {l \o S_newline \o TagFiller \o S_newline \o <<"#", "#", " ", "T", "a", "g", "s">> : l \in TagDocLines}

InitExtract ==
    /\ pc = "extractor_new"
    /\ arg \in {Str(d) : d \in TagDocuments}
    /\ doc_content = PyNone
    /\ parser_format = PyNone
    /\ extraction = PyNone
    /\ retval = PyNone
    /\ ParserIdle /\ BatchIdle /\ ClusterIdle /\ PipelineIdle /\ IncrementalIdle

\* Lines 865-874: load() of a readable file, whose text is arg.
Load ==
    /\ pc = "extractor_new"
    /\ pc' = "loaded"
    /\ doc_content' = arg
    /\ parser_format' = DetectFormat(arg.s)
    /\ retval' = Bool(TRUE)
    /\ UNCHANGED <<extraction, arg>>
    /\ UNCHANGED <<parserVars, batchVars, clusterVars, pipelineVars, incrementalVars>>

\* Lines 876-1013: extract()
CallExtract ==
    /\ pc = "loaded"
    /\ pc' = "extracted"
    /\ extraction' \in Extract(SOURCE_PATH, doc_content.s, parser_format)
    /\ retval' = PyNone
    /\ UNCHANGED <<doc_content, parser_format, arg>>
    /\ UNCHANGED <<parserVars, batchVars, clusterVars, pipelineVars, incrementalVars>>

NextExtract ==
    \/ Load
    \/ CallExtract

SpecExtract == InitExtract /\ [][NextExtract]_vars

\* The text of a section after its first line, the header line.
SectionBody(text) == IF \E i \in 1..Len(text) : text[i] = "\n" THEN Drop(text, CHOOSE i \in 1..Len(text) : text[i] = "\n" /\ \A j \in 1..(i - 1) : text[j] # "\n") ELSE <<>>

\* C15: for every document whose tags section is empty, the extraction has
\* the six tag lists (languages, frameworks, tools, domains, patterns,
\* services) empty, and parse_warnings holds both "Missing: tags.languages"
\* and "Missing: tags.domains", whatever else the document holds.
C15_EmptyTagsSectionGivesNoTags ==
    (/\ pc = "extracted"
     /\ DictHas(extraction.raw_sections, <<"t", "a", "g", "s">>)
     /\ Strip(SectionBody(DictGet(extraction.raw_sections, <<"t", "a", "g", "s">>, <<>>))) = <<>>)
        => /\ extraction.tags = [languages |-> <<>>, frameworks |-> <<>>, tools |-> <<>>, domains |-> <<>>, patterns |-> <<>>, services |-> <<>>]
           /\ \E i \in 1..Len(extraction.parse_warnings) : extraction.parse_warnings[i] = <<"M", "i", "s", "s", "i", "n", "g", ":", " ", "t", "a", "g", "s", ".", "l", "a", "n", "g", "u", "a", "g", "e", "s">>
           /\ \E i \in 1..Len(extraction.parse_warnings) : extraction.parse_warnings[i] = <<"M", "i", "s", "s", "i", "n", "g", ":", " ", "t", "a", "g", "s", ".", "d", "o", "m", "a", "i", "n", "s">>

(***************************************************************************)
(* process_directory (lines 1044-1098).  input_dir maps the path of each   *)
(* file of the directory tree, relative to the directory, to its text or   *)
(* to Unreadable; output_dir maps the doc_id of each JSON file written to  *)
(* the extraction it holds.                                                *)
(***************************************************************************)
Unreadable == [k |-> "unreadable"]

S_md == <<".", "m", "d">>
S_SR_PTD == <<"S", "R", "-", "P", "T", "D">>
S_task_doc == <<"t", "a", "s", "k", "_", "d", "o", "c">>

\* The sequences that hold each element of S once.
Orders(S) == {order \in [1..Cardinality(S) -> S] : \A i, j \in 1..Cardinality(S) : order[i] = order[j] => i = j}

\* Line 1058: input_path.glob("*.md"), the files of the directory itself, in
\* the order the file system lists them.
GlobTop(dir) == Orders({path \in DOMAIN dir : Len(path) = 1 /\ TakeLast(Name(path), Len(S_md)) = S_md})

\* Line 1060: input_path.glob("**/*.md"), the files of the directory itself
\* and then those of its subdirectory, each in the order the file system
\* lists them.
GlobDeep(dir) == {top \o sub : top \in GlobTop(dir), sub \in Orders({path \in DOMAIN dir : Len(path) = 2 /\ TakeLast(Name(path), Len(S_md)) = S_md})}

\* Lines 1063-1066: f.name.startswith(('SR-PTD', 'task_doc'))
IsSrptdName(name) == Take(name, Len(S_SR_PTD)) = S_SR_PTD \/ Take(name, Len(S_task_doc)) = S_task_doc

IsSrptdPath(path) == IsSrptdName(Name(path))

\* Lines 1057-1068
ListFiles ==
    /\ pc = "process_directory"
    /\ pc' = "next_file"
    /\ \E top \in GlobTop(input_dir), deep \in GlobDeep(input_dir) :
           /\ srptd_files' = SelectSeq(top \o deep, IsSrptdPath)
           /\ results' = [processed |-> <<>>, failed |-> <<>>, total |-> Len(SelectSeq(top \o deep, IsSrptdPath))]
    /\ file_index' = 0
    /\ UNCHANGED <<input_dir, output_dir>>
    /\ UNCHANGED <<parserVars, layer1Vars, clusterVars, pipelineVars, incrementalVars>>

\* Lines 1078-1084: the entry of results["processed"]
ProcessedEntry(file_path, x) == [source |-> file_path, output |-> x.doc_id, doc_id |-> x.doc_id, format |-> x.format_detected, warnings |-> x.parse_warnings]

\* Lines 1070-1096: one turn of the loop.  load() returns False for a file
\* that cannot be read; extract() and the writing of the JSON file follow a
\* load() that returned True.
ProcessFile ==
    /\ pc = "next_file"
    /\ file_index < Len(srptd_files)
    /\ file_index' = file_index + 1
    /\ IF input_dir[srptd_files[file_index + 1]] = Unreadable
       THEN /\ results' = [results EXCEPT !.failed = Append(@, [source |-> srptd_files[file_index + 1], error |-> <<"F", "a", "i", "l", "e", "d", " ", "t", "o", " ", "l", "o", "a", "d", " ", "f", "i", "l", "e">>])]
            /\ UNCHANGED output_dir
       ELSE \E x \in Extract(srptd_files[file_index + 1], input_dir[srptd_files[file_index + 1]].s, DetectFormat(input_dir[srptd_files[file_index + 1]].s)) :
                /\ output_dir' = DictSet(output_dir, x.doc_id, x)
                /\ results' = [results EXCEPT !.processed = Append(@, ProcessedEntry(srptd_files[file_index + 1], x))]
    /\ UNCHANGED <<pc, input_dir, srptd_files>>
    /\ UNCHANGED <<parserVars, layer1Vars, clusterVars, pipelineVars, incrementalVars>>

\* Line 1098
ReturnResults ==
    /\ pc = "next_file"
    /\ file_index = Len(srptd_files)
    /\ pc' = "results"
    /\ retval' = results
    /\ UNCHANGED <<doc_content, parser_format, extraction, arg>>
    /\ UNCHANGED <<parserVars, batchVars, clusterVars, pipelineVars, incrementalVars>>

(***************************************************************************)
(* SpecBatch: process_directory on a directory tree of at most MaxFiles    *)
(* files and an empty output directory, with the pattern "*.md".           *)
(***************************************************************************)
MaxFiles == 2

\* Two documents of the directory itself, two of its subdirectory, one of
\* them with the name of a document of the directory, a Markdown file that
\* is no SR-PTD document and an SR-PTD file that is no Markdown file.
BatchPaths == {
    <<<<"S", "R", "-", "P", "T", "D", "_", "a", ".", "m", "d">>>>,
    <<<<"t", "a", "s", "k", "_", "d", "o", "c", "_", "b", ".", "m", "d">>>>,
    <<<<"s", "u", "b">>, <<"S", "R", "-", "P", "T", "D", "_", "a", ".", "m", "d">>>>,
    <<<<"s", "u", "b">>, <<"S", "R", "-", "P", "T", "D", "_", "c", ".", "m", "d">>>>,
    <<<<"n", "o", "t", "e", "s", ".", "m", "d">>>>,
    <<<<"S", "R", "-", "P", "T", "D", "_", "d", ".", "t", "x", "t">>>>
}

\* A document without any of the fields the warnings are about and one
\* with a language tag only.
BatchTexts == {<<"#", " ", "D", "o", "c", "\n", "1", ".", " ", "R", "e", "a", "d", " ", "f", "i", "l", "e">>, <<"#", "#", " ", "T", "a", "g", "s", "\n", "L", "a", "n", "g", "u", "a", "g", "e", "s", ":", " ", "P", "y", "t", "h", "o", "n">>}

\* A document with a date, a trigger, a code block, a workflow step, a
\* language tag and a domain tag; it lies in the subdirectory.
FULL_DOCUMENT == <<"*", "*", "D", "a", "t", "e", "*", "*", ":", " ", "2", "0", "2", "4", "-", "0", "1", "-", "0", "2", "\n", ">", " ", "F", "i", "x", " ", "i", "t", "\n", "BACKTICK", "BACKTICK", "BACKTICK", "\n", "x", " ", "=", " ", "1", "\n", "BACKTICK", "BACKTICK", "BACKTICK", "\n", "#", "#", " ", "W", "o", "r", "k", "f", "l", "o", "w", "\n", "1", ".", " ", "R", "e", "a", "d", " ", "f", "i", "l", "e", "\n", "#", "#", " ", "T", "a", "g", "s", "\n", "*", "*", "L", "a", "n", "g", "u", "a", "g", "e", "s", "*", "*", ":", " ", "P", "y", "t", "h", "o", "n", "\n", "*", "*", "D", "o", "m", "a", "i", "n", "*", "*", ":", " ", "a", "p", "i">>

FULL_DOCUMENT_PATH == <<<<"s", "u", "b">>, <<"S", "R", "-", "P", "T", "D", "_", "c", ".", "m", "d">>>>

BatchDirs ==
    UNION {{dir \in [paths -> {Unreadable} \cup {Str(t) : t \in BatchTexts \cup {FULL_DOCUMENT}}] :
                \A path \in paths : dir[path] = Str(FULL_DOCUMENT) => path = FULL_DOCUMENT_PATH} :
           paths \in {P \in SUBSET BatchPaths : Cardinality(P) <= MaxFiles}}

InitBatch ==
    /\ pc = "process_directory"
    /\ input_dir \in BatchDirs
    /\ output_dir = <<>>
    /\ srptd_files = PyNone
    /\ file_index = 0
    /\ results = PyNone
    /\ ParserIdle /\ Layer1Idle /\ ClusterIdle /\ PipelineIdle /\ IncrementalIdle

NextBatch ==
    \/ ListFiles
    \/ ProcessFile
    \/ ReturnResults

SpecBatch == InitBatch /\ [][NextBatch]_vars

\* The SR-PTD documents of the directory tree.
SrptdDocuments(dir) == {path \in DOMAIN dir : IsSrptdPath(path) /\ TakeLast(Name(path), Len(S_md)) = S_md}

\* C11: process_directory over a directory tree that holds N SR-PTD
\* documents, K of them unreadable, returns total = N, N - K processed
\* entries and K failed entries: every document is counted once, wherever
\* it lies in the tree.
C11_BatchCountsEachDocumentOnce ==
    pc = "results" =>
        /\ retval.total = Cardinality(SrptdDocuments(input_dir))
        /\ Len(retval.failed) = Cardinality({path \in SrptdDocuments(input_dir) : input_dir[path] = Unreadable})
        /\ Len(retval.processed) = Cardinality({path \in SrptdDocuments(input_dir) : input_dir[path] # Unreadable})

(***************************************************************************)
(* Phase C: doc cards and coarse buckets (phase_c_clustering.py) and tag   *)
(* enrichment (phase_c_tag_enrichment.py).  A directory maps the doc_id or *)
(* the bucket key that names each of its JSON files to what the file       *)
(* holds.  An extraction and a doc card carry the fields the properties    *)
(* read: doc_id, the domains and patterns tags, bucket_key, _enrichment.   *)
(***************************************************************************)
S_unknown_tag == <<"u", "n", "k", "n", "o", "w", "n">>
S_key_separator == <<"_", "_">>

\* tag.lower().strip().replace(' ', '-')
SpacesToDashes(tag) == [i \in 1..Len(tag) |-> IF tag[i] = " " THEN "-" ELSE tag[i]]

TagLower(tag) == SpacesToDashes(Strip(Lower(tag)))

\* phase_c_clustering.py lines 121-132: _normalize_tags
RECURSIVE NormalizeTags(_)
KeepTag(normalized, tag) ==
    IF tag = <<>> \/ TagLower(tag) = S_unknown_tag \/ \E i \in 1..Len(normalized) : normalized[i] = TagLower(tag)
    THEN normalized
    ELSE Append(normalized, TagLower(tag))

NormalizeTags(tags) == IF tags = <<>> THEN <<>> ELSE KeepTag(NormalizeTags(SubSeq(tags, 1, Len(tags) - 1)), tags[Len(tags)])

\* tags[0] if tags else 'unknown'
PrimaryTag(tags) == IF tags # <<>> THEN tags[1] ELSE S_unknown_tag

\* Mutant of BucketKey: the key is formed from the last tags.
BucketKeyOfLastTags(tags) ==
    (IF tags.domains # <<>> THEN tags.domains[Len(tags.domains)] ELSE S_unknown_tag) \o S_key_separator
    \o (IF tags.patterns # <<>> THEN tags.patterns[Len(tags.patterns)] ELSE S_unknown_tag)

\* phase_c_clustering.py lines 103-106 and phase_c_tag_enrichment.py lines
\* 185-187: f"{primary_domain}__{primary_pattern}"
BucketKey(tags) == PrimaryTag(tags.domains) \o S_key_separator \o PrimaryTag(tags.patterns)

\* The doc card of a doc_id and its tags.
DocCard(doc_id, tags) == [doc_id |-> doc_id, tags |-> tags, bucket_key |-> BucketKey(tags), enrichment |-> PyNone]

\* phase_c_clustering.py lines 57-119: generate_card
GenerateCard(x) == DocCard(x.doc_id, [domains |-> NormalizeTags(x.tags.domains), patterns |-> NormalizeTags(x.tags.patterns)])

\* The order of str values, for the characters of AsciiPrintable.
LexLess(a, b) ==
    \E i \in 1..(Len(a) + 1) :
        /\ i <= Len(b)
        /\ \A j \in 1..(i - 1) : a[j] = b[j]
        /\ i <= Len(a) => IndexOf(AsciiPrintable, a[i]) < IndexOf(AsciiPrintable, b[i])

\* sorted(dir.glob("*.json")): the names of the files of the directory in
\* ascending order.
SortedNames(dir) == CHOOSE names \in Orders(DOMAIN dir) : \A i, j \in 1..Len(names) : i < j => LexLess(names[i], names[j])

\* The directory with the file of the given name written.
WriteFile(dir, name, content) == [n \in DOMAIN dir \cup {name} |-> IF n = name THEN content ELSE dir[n]]

\* phase_c_clustering.py lines 134-161: the doc cards directory after the
\* cards of the extractions named have been written, one after the other.
RECURSIVE WriteCards(_, _, _)
WriteCard(cards_dir, card) == WriteFile(cards_dir, card.doc_id, card)

WriteCards(cards_dir, extractions, names) ==
    IF names = <<>> THEN cards_dir
    ELSE WriteCards(WriteCard(cards_dir, GenerateCard(extractions[Head(names)])), extractions, Tail(names))

\* bucket_key.split('__')
RECURSIVE SplitKey(_)
SplitKeyAt(key, at) == IF at = {} THEN <<key>> ELSE <<SubSeq(key, 1, Min(at) - 1)>> \o SplitKey(Drop(key, Min(at) + 1))

SplitKey(key) == SplitKeyAt(key, {i \in 1..(Len(key) - 1) : key[i] = "_" /\ key[i + 1] = "_"})

\* Mutant of AddToBucket: the bucket forgets the cards it held.
ReplaceBucket(buckets, key, parts, doc_id) ==
    WriteFile(buckets, key,
        [doc_ids |-> <<doc_id>>,
         primary_domain |-> parts[1],
         primary_pattern |-> IF Len(parts) > 1 THEN parts[2] ELSE S_unknown_tag,
         doc_count |-> 1])

\* phase_c_clustering.py lines 195-201 and phase_c_tag_enrichment.py lines
\* 304-311: the bucket of the key with the doc_id of one more card.
AddToBucket(buckets, key, parts, doc_id) ==
    WriteFile(buckets, key,
        [doc_ids |-> (IF key \in DOMAIN buckets THEN buckets[key].doc_ids ELSE <<>>) \o <<doc_id>>,
         primary_domain |-> parts[1],
         primary_pattern |-> IF Len(parts) > 1 THEN parts[2] ELSE S_unknown_tag,
         doc_count |-> Len(IF key \in DOMAIN buckets THEN buckets[key].doc_ids ELSE <<>>) + 1])

\* phase_c_clustering.py lines 184-203: create_buckets, from the card of
\* index i on.
RECURSIVE BucketLoop(_, _, _)
BucketLoop(cards, i, buckets) ==
    IF i > Len(cards) THEN buckets
    ELSE BucketLoop(cards, i + 1, AddToBucket(buckets, cards[i].bucket_key, SplitKey(cards[i].bucket_key), cards[i].doc_id))

CreateBuckets(cards) == BucketLoop(cards, 1, <<>>)

\* bucket_key.replace('/', '-').replace('\\', '-')
SafeKey(key) == [i \in 1..Len(key) |-> IF key[i] \in {"/", "BACKSLASH"} THEN "-" ELSE key[i]]

\* phase_c_clustering.py lines 207-215 and phase_c_tag_enrichment.py lines
\* 313-321: the buckets directory after the files of the buckets of the
\* keys given have been written.
RECURSIVE WriteBuckets(_, _, _)
WriteBuckets(dir, buckets, keys) ==
    IF keys = <<>> THEN dir
    ELSE WriteBuckets(WriteFile(dir, SafeKey(Head(keys)), [bucket_key |-> Head(keys)] @@ buckets[Head(keys)]), buckets, Tail(keys))

\* The sum of the doc_count of the buckets of the keys given.
RECURSIVE SumCounts(_, _)
SumCountsFrom(buckets, keys, key) == buckets[key].doc_count + SumCounts(buckets, keys \ {key})

SumCounts(buckets, keys) == IF keys = {} THEN 0 ELSE SumCountsFrom(buckets, keys, CHOOSE key \in keys : TRUE)

\* phase_c_clustering.py lines 217-236: the summary.  avg_bucket_size is
\* left as the sum and the count it divides.
Summary(buckets) ==
    [statistics |->
        [total_buckets |-> Cardinality(DOMAIN buckets),
         total_documents |-> SumCounts(buckets, DOMAIN buckets),
         avg_bucket_size |-> IF DOMAIN buckets # {} THEN <<SumCounts(buckets, DOMAIN buckets), Cardinality(DOMAIN buckets)>> ELSE <<0, 1>>,
         max_bucket_size |-> IF DOMAIN buckets # {} THEN Max({buckets[key].doc_count : key \in DOMAIN buckets}) ELSE 0,
         min_bucket_size |-> IF DOMAIN buckets # {} THEN Min({buckets[key].doc_count : key \in DOMAIN buckets}) ELSE 0,
         singleton_buckets |-> Cardinality({key \in DOMAIN buckets : buckets[key].doc_count = 1}),
         unknown_bucket_docs |-> IF S_unknown_tag \o S_key_separator \o S_unknown_tag \in DOMAIN buckets THEN buckets[S_unknown_tag \o S_key_separator \o S_unknown_tag].doc_count ELSE 0],
     buckets |-> buckets]

DEFAULT_DOMAIN_VOCABULARY == {
    <<"d", "a", "t", "a", "-", "a", "n", "a", "l", "y", "s", "i", "s">>,
    <<"d", "a", "t", "a", "-", "p", "r", "o", "c", "e", "s", "s", "i", "n", "g">>,
    <<"d", "a", "t", "a", "-", "v", "a", "l", "i", "d", "a", "t", "i", "o", "n">>,
    <<"d", "a", "t", "a", "-", "p", "r", "o", "f", "i", "l", "i", "n", "g">>,
    <<"p", "d", "f", "-", "p", "r", "o", "c", "e", "s", "s", "i", "n", "g">>,
    <<"p", "d", "f", "-", "e", "x", "t", "r", "a", "c", "t", "i", "o", "n">>,
    <<"d", "o", "c", "u", "m", "e", "n", "t", "-", "p", "r", "o", "c", "e", "s", "s", "i", "n", "g">>,
    <<"t", "e", "x", "t", "-", "e", "x", "t", "r", "a", "c", "t", "i", "o", "n">>,
    <<"a", "p", "i", "-", "d", "e", "v", "e", "l", "o", "p", "m", "e", "n", "t">>,
    <<"b", "a", "c", "k", "e", "n", "d">>,
    <<"f", "r", "o", "n", "t", "e", "n", "d">>,
    <<"u", "i">>,
    <<"d", "a", "s", "h", "b", "o", "a", "r", "d">>,
    <<"d", "e", "p", "l", "o", "y", "m", "e", "n", "t">>,
    <<"i", "n", "f", "r", "a", "s", "t", "r", "u", "c", "t", "u", "r", "e">>,
    <<"d", "e", "v", "o", "p", "s">>,
    <<"c", "i", "-", "c", "d">>,
    <<"a", "i", "-", "i", "n", "t", "e", "g", "r", "a", "t", "i", "o", "n">>,
    <<"l", "l", "m">>,
    <<"p", "r", "o", "m", "p", "t", "-", "e", "n", "g", "i", "n", "e", "e", "r", "i", "n", "g">>,
    <<"m", "a", "c", "h", "i", "n", "e", "-", "l", "e", "a", "r", "n", "i", "n", "g">>,
    <<"d", "a", "t", "a", "b", "a", "s", "e">>,
    <<"s", "q", "l">>,
    <<"n", "o", "s", "q", "l">>,
    <<"d", "a", "t", "a", "-", "m", "o", "d", "e", "l", "i", "n", "g">>,
    <<"t", "e", "s", "t", "i", "n", "g">>,
    <<"q", "a">>,
    <<"a", "u", "t", "o", "m", "a", "t", "i", "o", "n">>,
    <<"s", "c", "r", "i", "p", "t", "i", "n", "g">>,
    <<"l", "o", "g", "g", "i", "n", "g">>,
    <<"m", "o", "n", "i", "t", "o", "r", "i", "n", "g">>,
    <<"o", "b", "s", "e", "r", "v", "a", "b", "i", "l", "i", "t", "y">>,
    <<"e", "r", "r", "o", "r", "-", "h", "a", "n", "d", "l", "i", "n", "g">>,
    <<"a", "u", "t", "h", "e", "n", "t", "i", "c", "a", "t", "i", "o", "n">>,
    <<"s", "e", "c", "u", "r", "i", "t", "y">>,
    <<"a", "u", "t", "h", "o", "r", "i", "z", "a", "t", "i", "o", "n">>,
    <<"f", "i", "l", "e", "-", "p", "r", "o", "c", "e", "s", "s", "i", "n", "g">>,
    <<"i", "m", "a", "g", "e", "-", "p", "r", "o", "c", "e", "s", "s", "i", "n", "g">>,
    <<"a", "u", "d", "i", "o", "-", "p", "r", "o", "c", "e", "s", "s", "i", "n", "g">>,
    <<"v", "i", "d", "e", "o", "-", "p", "r", "o", "c", "e", "s", "s", "i", "n", "g">>,
    <<"w", "e", "b", "-", "s", "c", "r", "a", "p", "i", "n", "g">>,
    <<"e", "t", "l">>,
    <<"d", "a", "t", "a", "-", "p", "i", "p", "e", "l", "i", "n", "e">>,
    <<"w", "o", "r", "k", "f", "l", "o", "w", "-", "a", "u", "t", "o", "m", "a", "t", "i", "o", "n">>,
    <<"c", "l", "i", "-", "t", "o", "o", "l", "s">>,
    <<"u", "t", "i", "l", "i", "t", "i", "e", "s">>,
    <<"c", "o", "n", "f", "i", "g", "u", "r", "a", "t", "i", "o", "n">>,
    <<"s", "e", "t", "t", "i", "n", "g", "s">>
}

DEFAULT_PATTERN_VOCABULARY == {
    <<"f", "e", "a", "t", "u", "r", "e", "-", "i", "m", "p", "l", "e", "m", "e", "n", "t", "a", "t", "i", "o", "n">>,
    <<"b", "u", "g", "-", "f", "i", "x">>,
    <<"r", "e", "f", "a", "c", "t", "o", "r">>,
    <<"o", "p", "t", "i", "m", "i", "z", "a", "t", "i", "o", "n">>,
    <<"i", "n", "t", "e", "g", "r", "a", "t", "i", "o", "n">>,
    <<"m", "i", "g", "r", "a", "t", "i", "o", "n">>,
    <<"u", "p", "g", "r", "a", "d", "e">>,
    <<"c", "o", "n", "f", "i", "g", "u", "r", "a", "t", "i", "o", "n">>,
    <<"e", "x", "t", "r", "a", "c", "t", "i", "o", "n">>,
    <<"t", "r", "a", "n", "s", "f", "o", "r", "m", "a", "t", "i", "o", "n">>,
    <<"l", "o", "a", "d", "i", "n", "g">>,
    <<"e", "t", "l">>,
    <<"a", "p", "i", "-", "w", "r", "a", "p", "p", "e", "r">>,
    <<"c", "l", "i", "e", "n", "t", "-", "l", "i", "b", "r", "a", "r", "y">>,
    <<"s", "d", "k", "-", "i", "n", "t", "e", "g", "r", "a", "t", "i", "o", "n">>,
    <<"u", "i", "-", "c", "o", "m", "p", "o", "n", "e", "n", "t">>,
    <<"f", "o", "r", "m", "-", "h", "a", "n", "d", "l", "i", "n", "g">>,
    <<"d", "a", "t", "a", "-", "v", "i", "s", "u", "a", "l", "i", "z", "a", "t", "i", "o", "n">>,
    <<"e", "r", "r", "o", "r", "-", "h", "a", "n", "d", "l", "i", "n", "g">>,
    <<"r", "e", "t", "r", "y", "-", "l", "o", "g", "i", "c">>,
    <<"f", "a", "l", "l", "b", "a", "c", "k">>,
    <<"c", "a", "c", "h", "i", "n", "g">>,
    <<"p", "e", "r", "f", "o", "r", "m", "a", "n", "c", "e">>,
    <<"s", "c", "a", "l", "i", "n", "g">>,
    <<"v", "a", "l", "i", "d", "a", "t", "i", "o", "n">>,
    <<"s", "a", "n", "i", "t", "i", "z", "a", "t", "i", "o", "n">>,
    <<"n", "o", "r", "m", "a", "l", "i", "z", "a", "t", "i", "o", "n">>,
    <<"r", "e", "p", "o", "r", "t", "-", "g", "e", "n", "e", "r", "a", "t", "i", "o", "n">>,
    <<"e", "x", "p", "o", "r", "t">>,
    <<"i", "m", "p", "o", "r", "t">>,
    <<"s", "c", "h", "e", "d", "u", "l", "e", "d", "-", "t", "a", "s", "k">>,
    <<"b", "a", "t", "c", "h", "-", "p", "r", "o", "c", "e", "s", "s", "i", "n", "g">>,
    <<"a", "s", "y", "n", "c", "-", "p", "r", "o", "c", "e", "s", "s", "i", "n", "g">>,
    <<"t", "e", "m", "p", "l", "a", "t", "e", "-", "c", "r", "e", "a", "t", "i", "o", "n">>,
    <<"c", "o", "d", "e", "-", "g", "e", "n", "e", "r", "a", "t", "i", "o", "n">>,
    <<"s", "c", "a", "f", "f", "o", "l", "d", "i", "n", "g">>
}

\* phase_c_tag_enrichment.py lines 100-110: needs_enrichment
NeedsEnrichment(card) ==
    \/ ~\E i \in 1..Len(card.tags.domains) : card.tags.domains[i] \notin {<<>>, S_unknown_tag}
    \/ ~\E i \in 1..Len(card.tags.patterns) : card.tags.patterns[i] \notin {<<>>, S_unknown_tag}

InDomainVocabulary(tag) == tag \in DEFAULT_DOMAIN_VOCABULARY
InPatternVocabulary(tag) == tag \in DEFAULT_PATTERN_VOCABULARY

\* phase_c_tag_enrichment.py lines 176-196: the card with the tags the
\* service gave, those of the vocabulary, where it gave any.
EnrichedCard(card, tags) == [doc_id |-> card.doc_id, tags |-> tags, bucket_key |-> BucketKey(tags), enrichment |-> [enriched |-> TRUE, original_bucket_key |-> card.bucket_key]]

NewTags(new, old) == IF new # <<>> THEN new ELSE old

\* phase_c_tag_enrichment.py lines 145-207: enrich_card, for the answer of
\* the service once parsed, or Raised when the call or the parsing failed.
EnrichCard(card, response) ==
    IF response = Raised
    THEN [card EXCEPT !.enrichment = [enriched |-> FALSE]]
    ELSE EnrichedCard(card, [domains |-> NewTags(SelectSeq(response.domains, InDomainVocabulary), card.tags.domains),
                             patterns |-> NewTags(SelectSeq(response.patterns, InPatternVocabulary), card.tags.patterns)])

(***************************************************************************)
(* SpecPhaseC: the extractions directory changes between runs, as Layer 1  *)
(* and Phase B write and as the user removes documents; a run of           *)
(* phase_c_clustering.py goes through process_all, load_doc_cards,         *)
(* create_buckets and save_buckets, and a run of phase_c_tag_enrichment.py *)
(* follows a finished clustering run.                                      *)
(***************************************************************************)
MaxDocs == 2

DocIds == {<<"d", Digits[i + 1]>> : i \in 1..MaxDocs}

\* The tags of an extraction: with no pattern, with tags to normalize, and
\* with no tag at all.
RawTags ==
    {[domains |-> <<<<"a", "p", "i", "-", "d", "e", "v", "e", "l", "o", "p", "m", "e", "n", "t">>, <<"t", "e", "s", "t", "i", "n", "g">>>>, patterns |-> <<>>],
     [domains |-> <<<<"u", "n", "k", "n", "o", "w", "n">>, <<" ", "W", "e", "b", " ", "S", "c", "r", "a", "p", "i", "n", "g">>>>, patterns |-> <<<<"b", "u", "g", "_", "_", "f", "i", "x">>, <<"B", "u", "g", "_", "_", "F", "i", "x">>>>],
     [domains |-> <<>>, patterns |-> <<>>]}

\* What the service answers for a card: a failure, tags of the
\* vocabularies, or tags outside them.
Responses ==
    {Raised, [domains |-> <<<<"m", "a", "d", "e", "-", "u", "p">>, <<"d", "a", "t", "a", "b", "a", "s", "e">>, <<"t", "e", "s", "t", "i", "n", "g">>>>, patterns |-> <<<<"m", "a", "d", "e", "-", "u", "p">>>>]}

EmptyDir == <<>>

InitPhaseC ==
    /\ pc = "phase_c_idle"
    /\ ParserIdle /\ Layer1Idle /\ BatchIdle /\ PipelineIdle /\ IncrementalIdle
    /\ extractions_dir = EmptyDir
    /\ doc_cards_dir = EmptyDir
    /\ buckets_dir = EmptyDir
    /\ clustering_summary = PyNone
    /\ enriched_cards_dir = EmptyDir
    /\ enriched_buckets_dir = EmptyDir

BetweenRuns == pc \in {"phase_c_idle", "phase_c_done", "enrichment_done"}

\* layer1_extractor.py lines 188-192 and 1076: an extraction is written as
\* {doc_id}.json, and the doc_id of a document changes with its content, so
\* the extraction of a doc_id that is there, or that has its doc card, is
\* not written anew with other tags.
WriteExtraction ==
    /\ BetweenRuns
    /\ \E doc_id \in DocIds \ (DOMAIN extractions_dir \cup DOMAIN doc_cards_dir), tags \in RawTags :
        extractions_dir' = WriteFile(extractions_dir, doc_id, [doc_id |-> doc_id, tags |-> tags])
    /\ pc' = "phase_c_idle"
    /\ UNCHANGED <<doc_cards_dir, buckets_dir, clustering_summary, enriched_cards_dir, enriched_buckets_dir>>
    /\ UNCHANGED <<parserVars, layer1Vars, batchVars, pipelineVars, incrementalVars>>

\* A document leaves the corpus: its extraction file is deleted.
RemoveExtraction ==
    /\ BetweenRuns
    /\ \E doc_id \in DOMAIN extractions_dir :
        extractions_dir' = [n \in DOMAIN extractions_dir \ {doc_id} |-> extractions_dir[n]]
    /\ pc' = "phase_c_idle"
    /\ UNCHANGED <<doc_cards_dir, buckets_dir, clustering_summary, enriched_cards_dir, enriched_buckets_dir>>
    /\ UNCHANGED <<parserVars, layer1Vars, batchVars, pipelineVars, incrementalVars>>

\* phase_c_clustering.py lines 134-161: process_all
ProcessAll ==
    /\ BetweenRuns
    /\ doc_cards_dir' = WriteCards(doc_cards_dir, extractions_dir, SortedNames(extractions_dir))
    /\ pc' = "load_doc_cards"
    /\ UNCHANGED <<extractions_dir, buckets_dir, clustering_summary, enriched_cards_dir, enriched_buckets_dir>>
    /\ UNCHANGED <<parserVars, layer1Vars, batchVars, pipelineVars, incrementalVars>>

CardsOf(dir, names) == [i \in 1..Len(names) |-> dir[names[i]]]

\* phase_c_clustering.py lines 173-182: load_doc_cards
LoadDocCards ==
    /\ pc = "load_doc_cards"
    /\ retval' = CardsOf(doc_cards_dir, SortedNames(doc_cards_dir))
    /\ pc' = "create_buckets"
    /\ UNCHANGED <<doc_content, parser_format, extraction, arg>>
    /\ UNCHANGED <<parserVars, batchVars, clusterVars, pipelineVars, incrementalVars>>

\* phase_c_clustering.py lines 184-203: create_buckets
CallCreateBuckets ==
    /\ pc = "create_buckets"
    /\ retval' = CreateBuckets(retval)
    /\ pc' = "save_buckets"
    /\ UNCHANGED <<doc_content, parser_format, extraction, arg>>
    /\ UNCHANGED <<parserVars, batchVars, clusterVars, pipelineVars, incrementalVars>>

\* The keys of a dict, in some order: the files written do not depend on it.
KeysOf(buckets) == CHOOSE keys \in Orders(DOMAIN buckets) : TRUE

\* phase_c_clustering.py lines 205-242: save_buckets
SaveBuckets ==
    /\ pc = "save_buckets"
    /\ buckets_dir' = WriteBuckets(buckets_dir, retval, KeysOf(retval))
    /\ clustering_summary' = Summary(retval)
    /\ retval' = PyNone
    /\ pc' = "phase_c_done"
    /\ UNCHANGED <<extractions_dir, doc_cards_dir, enriched_cards_dir, enriched_buckets_dir>>
    /\ UNCHANGED <<doc_content, parser_format, extraction, arg>>
    /\ UNCHANGED <<parserVars, batchVars, pipelineVars, incrementalVars>>

\* phase_c_tag_enrichment.py lines 243-256: the cards as saved, those that
\* need enrichment enriched with the answer of the service for each.
EnrichedCards(cards, responses) ==
    [i \in 1..Len(cards) |-> IF NeedsEnrichment(cards[i]) THEN EnrichCard(cards[i], responses[cards[i].doc_id]) ELSE cards[i]]

\* phase_c_tag_enrichment.py lines 226-233: the doc_ids of cards_to_enrich
CardsToEnrich(dir) == {dir[name].doc_id : name \in {n \in DOMAIN dir : NeedsEnrichment(dir[n])}}

RECURSIVE SaveCards(_, _, _)
SaveCards(dir, cards, i) == IF i > Len(cards) THEN dir ELSE SaveCards(WriteCard(dir, cards[i]), cards, i + 1)

\* phase_c_tag_enrichment.py lines 209-277: run, up to the enriched cards
\* saved.  glob gives the card files in an order the file system chooses,
\* which does not reach the files written.
RunTagEnrichment ==
    /\ pc = "phase_c_done"
    /\ \E responses \in [CardsToEnrich(doc_cards_dir) -> Responses] :
        enriched_cards_dir' = SaveCards(enriched_cards_dir, EnrichedCards(CardsOf(doc_cards_dir, SortedNames(doc_cards_dir)), responses), 1)
    /\ pc' = "regenerate_buckets"
    /\ UNCHANGED <<extractions_dir, doc_cards_dir, buckets_dir, clustering_summary, enriched_buckets_dir>>
    /\ UNCHANGED <<parserVars, layer1Vars, batchVars, pipelineVars, incrementalVars>>

\* phase_c_tag_enrichment.py lines 313-321: the bucket files written.
SaveRegenerated(dir, buckets) == WriteBuckets(dir, buckets, KeysOf(buckets))

\* phase_c_tag_enrichment.py lines 279-321: run, from _regenerate_buckets
\* on.  The order in which glob gives the enriched card files orders the
\* doc_ids of a bucket.
RegenerateBuckets ==
    /\ pc = "regenerate_buckets"
    /\ enriched_buckets_dir' \in {SaveRegenerated(enriched_buckets_dir, CreateBuckets(CardsOf(enriched_cards_dir, listed))) : listed \in Orders(DOMAIN enriched_cards_dir)}
    /\ pc' = "enrichment_done"
    /\ UNCHANGED <<extractions_dir, doc_cards_dir, buckets_dir, clustering_summary, enriched_cards_dir>>
    /\ UNCHANGED <<parserVars, layer1Vars, batchVars, pipelineVars, incrementalVars>>

NextPhaseC ==
    \/ WriteExtraction
    \/ RemoveExtraction
    \/ ProcessAll
    \/ LoadDocCards
    \/ CallCreateBuckets
    \/ SaveBuckets
    \/ RunTagEnrichment
    \/ RegenerateBuckets

SpecPhaseC == InitPhaseC /\ [][NextPhaseC]_vars

\* The cards of a directory and the cards a run has loaded.
CardsIn(dir) == {dir[name] : name \in DOMAIN dir}

AllDocCards == CardsIn(doc_cards_dir) \cup CardsIn(enriched_cards_dir) \cup (IF pc = "create_buckets" THEN {retval[i] : i \in 1..Len(retval)} ELSE {})

\* C13: the bucket_key of every doc card, as generated and as enriched, is
\* d, two underscores and p, where d is the first tag of the domains of the
\* card, or "unknown" when it has none, and p is the first tag of its
\* patterns, or "unknown" when it has none; domains api-development and
\* testing with no pattern give api-development__unknown.
C13_BucketKeyIsFirstDomainAndPattern ==
    \A card \in AllDocCards :
        /\ card.bucket_key = (IF card.tags.domains = <<>> THEN S_unknown_tag ELSE Head(card.tags.domains))
                             \o <<"_", "_">>
                             \o (IF card.tags.patterns = <<>> THEN S_unknown_tag ELSE Head(card.tags.patterns))
        /\ (card.tags.domains = <<<<"a", "p", "i", "-", "d", "e", "v", "e", "l", "o", "p", "m", "e", "n", "t">>, <<"t", "e", "s", "t", "i", "n", "g">>>> /\ card.tags.patterns = <<>>)
            => card.bucket_key = <<"a", "p", "i", "-", "d", "e", "v", "e", "l", "o", "p", "m", "e", "n", "t", "_", "_", "u", "n", "k", "n", "o", "w", "n">>

\* A generated card with the domains api-development and testing and no
\* pattern, and an enriched card whose domains the service replaced.
C13_Witness ==
    /\ \E card \in CardsIn(doc_cards_dir) :
        /\ card.tags = [domains |-> <<<<"a", "p", "i", "-", "d", "e", "v", "e", "l", "o", "p", "m", "e", "n", "t">>, <<"t", "e", "s", "t", "i", "n", "g">>>>, patterns |-> <<>>]
        /\ card.bucket_key = <<"a", "p", "i", "-", "d", "e", "v", "e", "l", "o", "p", "m", "e", "n", "t", "_", "_", "u", "n", "k", "n", "o", "w", "n">>
    /\ \E card \in CardsIn(enriched_cards_dir) :
        /\ card.enrichment = [enriched |-> TRUE, original_bucket_key |-> <<"a", "p", "i", "-", "d", "e", "v", "e", "l", "o", "p", "m", "e", "n", "t", "_", "_", "u", "n", "k", "n", "o", "w", "n">>]
        /\ card.tags.domains = <<<<"d", "a", "t", "a", "b", "a", "s", "e">>, <<"t", "e", "s", "t", "i", "n", "g">>>>
        /\ card.bucket_key = <<"d", "a", "t", "a", "b", "a", "s", "e", "_", "_", "u", "n", "k", "n", "o", "w", "n">>

\* The doc cards of the extractions of the directory now.
CurrentCards == [i \in 1..Cardinality(DOMAIN extractions_dir) |-> GenerateCard(extractions_dir[SortedNames(extractions_dir)[i]])]

CurrentBuckets == CreateBuckets(CurrentCards)

\* C12: when a run of Phase C has ended, the doc cards are those of the
\* extractions of the directory now, and the bucket files and the buckets
\* of the clustering summary are exactly the grouping of these cards: no
\* card, bucket or member of a document that is gone survives.
C12_BucketsAreThoseOfCurrentExtractions ==
    pc = "phase_c_done" =>
        /\ {card.doc_id : card \in CardsIn(doc_cards_dir)} = {extractions_dir[name].doc_id : name \in DOMAIN extractions_dir}
        /\ clustering_summary.buckets = CurrentBuckets
        /\ buckets_dir = WriteBuckets(EmptyDir, CurrentBuckets, KeysOf(CurrentBuckets))

(***************************************************************************)
(* SpecDedup: deduplicate_list on one list of texts, as extract_tags calls *)
(* it (lines 798-803), and again on the list it returned.                  *)
(***************************************************************************)
MaxItems == 3

\* Texts equal but for case and blanks around, the capital I with dot whose
\* lowercase is two characters, and the empty text.
DedupItems == {<<"G", "o">>, <<"g", "o">>, <<" ", "g", "o">>, <<"p", "y", " ">>, <<"P", "y">>, <<"U0130">>, <<"i", "U0307">>, <<>>}

DedupLists == UNION {[1..n -> DedupItems] : n \in 0..MaxItems}

InitDedup ==
    /\ pc = "deduplicate_list"
    /\ arg \in DedupLists
    /\ doc_content = PyNone
    /\ parser_format = PyNone
    /\ extraction = PyNone
    /\ retval = PyNone
    /\ ParserIdle /\ BatchIdle /\ ClusterIdle /\ PipelineIdle /\ IncrementalIdle

CallDeduplicateList ==
    /\ pc = "deduplicate_list"
    /\ pc' = "deduplicated"
    /\ retval' = DeduplicateList(arg)
    /\ UNCHANGED <<doc_content, parser_format, extraction, arg>>
    /\ UNCHANGED <<parserVars, batchVars, clusterVars, pipelineVars, incrementalVars>>

\* deduplicate_list applied to the list it returned.
CallDeduplicateListAgain ==
    /\ pc = "deduplicated"
    /\ pc' = "deduplicated_again"
    /\ retval' = DeduplicateList(retval)
    /\ UNCHANGED <<doc_content, parser_format, extraction, arg>>
    /\ UNCHANGED <<parserVars, batchVars, clusterVars, pipelineVars, incrementalVars>>

NextDedup ==
    \/ CallDeduplicateList
    \/ CallDeduplicateListAgain

SpecDedup == InitDedup /\ [][NextDedup]_vars

\* The texts are equal when compared without case and trimmed.
SameItem(a, b) == Strip(Lower(a)) = Strip(Lower(b))

\* The places of a list whose item no earlier place holds, and the k-th of
\* them.
FirstSeen(items) == {i \in 1..Len(items) : \A j \in 1..(i - 1) : ~SameItem(items[j], items[i])}

NthOf(places, k) == CHOOSE i \in places : Cardinality({j \in places : j <= i}) = k

\* C22: deduplicate_list returns, in their order, the first-seen item of
\* each group of items equal without case and trimmed, and applied to its
\* own result it returns that result unchanged.
C22_DeduplicateKeepsFirstSeen ==
    pc \in {"deduplicated", "deduplicated_again"} =>
        retval = [k \in 1..Cardinality(FirstSeen(arg)) |-> arg[NthOf(FirstSeen(arg), k)]]

\* The list Go, "py ", " go", of which the third item repeats the first.
C22_Witness ==
    /\ pc = "deduplicated_again"
    /\ arg = <<<<"G", "o">>, <<"p", "y", " ">>, <<" ", "g", "o">>>>
    /\ retval = <<<<"G", "o">>, <<"p", "y", " ">>>>

\* C23: the doc_id is a key of the source path and the content: two
\* processed entries of one batch have the same doc_id exactly when they
\* have the same source path and the same content, so that no two
\* documents write the same output file.
C23_DocIdIsKeyOfPathAndContent ==
    pc = "results" =>
        \A i, j \in 1..Len(results.processed) :
            (results.processed[i].doc_id = results.processed[j].doc_id)
            <=> (/\ results.processed[i].source = results.processed[j].source
                 /\ input_dir[results.processed[i].source] = input_dir[results.processed[j].source])

(***************************************************************************)
(* run_pipeline.py: the phases of the pipeline run one after the other as  *)
(* subprocesses, and .pipeline_progress.json records the status of each    *)
(* phase that ran.  progress is what that file holds: the status of a      *)
(* phase under its id, and last_phase and last_status.                     *)
(***************************************************************************)
\* Lines 36-102
PHASES == <<
    [id |-> "B", requires_api |-> FALSE, is_synthesis |-> FALSE],
    [id |-> "C.0-C.1", requires_api |-> FALSE, is_synthesis |-> FALSE],
    [id |-> "C.2", requires_api |-> TRUE, is_synthesis |-> FALSE],
    [id |-> "C.3", requires_api |-> TRUE, is_synthesis |-> FALSE],
    [id |-> "C.4", requires_api |-> FALSE, is_synthesis |-> FALSE],
    [id |-> "C.5", requires_api |-> FALSE, is_synthesis |-> FALSE],
    [id |-> "sanity", requires_api |-> FALSE, is_synthesis |-> FALSE],
    [id |-> "D", requires_api |-> TRUE, is_synthesis |-> TRUE]>>

\* No checkpoint file, which load_progress reads as {}.
NoProgress == [key \in {} |-> ""]

\* progress.get(key)
ProgressGet(checkpoint, key) == IF key \in DOMAIN checkpoint THEN checkpoint[key] ELSE ""

\* Mutant of SaveProgress: the status of the phase is not written.
SaveLastOnly(checkpoint, phase_id, status) ==
    [key \in DOMAIN checkpoint \cup {"last_phase", "last_status"} |->
        IF key = "last_phase" THEN phase_id
        ELSE IF key = "last_status" THEN status
        ELSE checkpoint[key]]

\* Lines 182-198: save_progress
SaveProgress(checkpoint, phase_id, status) ==
    [key \in DOMAIN checkpoint \cup {phase_id, "last_phase", "last_status"} |->
        IF key = phase_id THEN status
        ELSE IF key = "last_phase" THEN phase_id
        ELSE IF key = "last_status" THEN status
        ELSE checkpoint[key]]

\* Lines 307-313: the phases whose status is not SUCCESS, counted from 0.
NotSucceeded(checkpoint) == {i \in 0..(Len(PHASES) - 1) : ProgressGet(checkpoint, PHASES[i + 1].id) # "SUCCESS"}

\* Lines 304-316: start_from_phase
StartFromPhase(resume, checkpoint) ==
    IF resume /\ ProgressGet(checkpoint, "last_status") = "SUCCESS" /\ NotSucceeded(checkpoint) # {}
    THEN Min(NotSucceeded(checkpoint))
    ELSE 0

\* Lines 326-345: the phase of index i is skipped.
Skipped(phase, i, opts, start) ==
    \/ opts.skip_synthesis /\ phase.is_synthesis
    \/ opts.resume /\ i < start
    \/ phase.requires_api /\ ~opts.api_key /\ ~opts.dry_run

NoResults == [success |-> <<>>, failed |-> <<>>, skipped |-> <<>>]

(***************************************************************************)
(* SpecPipeline: at most MaxRuns runs of run_pipeline on one project, each *)
(* with its own options; a phase that runs succeeds or fails.              *)
(***************************************************************************)
MaxRuns == 2

RunOptions == [resume : BOOLEAN, skip_synthesis : BOOLEAN, api_key : BOOLEAN, dry_run : BOOLEAN]

InitPipeline ==
    /\ pc = "pipeline_idle"
    /\ progress = NoProgress
    /\ options = PyNone
    /\ start_from_phase = 0
    /\ phase_index = 0
    /\ run_results = PyNone
    /\ run_count = 0
    /\ ParserIdle /\ Layer1Idle /\ BatchIdle /\ ClusterIdle /\ IncrementalIdle

\* Lines 294-300 and 303-312: there is no input file, or there is no API
\* key, the run is no dry run and the user does not answer y: the run ends
\* before any phase.
ReturnEarly ==
    /\ pc \in {"pipeline_idle", "pipeline_returned"}
    /\ run_count < MaxRuns
    /\ run_count' = run_count + 1
    /\ \E opts \in RunOptions, input_count \in {0, 2}, response \in {"y", "n"} :
        /\ input_count = 0 \/ (~opts.api_key /\ ~opts.dry_run /\ response # "y")
        /\ options' = opts
    /\ run_results' = PyNone
    /\ retval' = Bool(FALSE)
    /\ pc' = "pipeline_returned"
    /\ UNCHANGED <<progress, start_from_phase, phase_index>>
    /\ UNCHANGED <<doc_content, parser_format, extraction, arg>>
    /\ UNCHANGED <<parserVars, batchVars, clusterVars, incrementalVars>>

\* Lines 273-325: the run up to the loop over the phases.
StartRun ==
    /\ pc \in {"pipeline_idle", "pipeline_returned"}
    /\ run_count < MaxRuns
    /\ run_count' = run_count + 1
    /\ \E opts \in RunOptions :
        /\ options' = opts
        /\ start_from_phase' = StartFromPhase(opts.resume, progress)
    /\ phase_index' = 0
    /\ run_results' = NoResults
    /\ retval' = PyNone
    /\ pc' = "run_phases"
    /\ UNCHANGED progress
    /\ UNCHANGED <<doc_content, parser_format, extraction, arg>>
    /\ UNCHANGED <<parserVars, batchVars, clusterVars, incrementalVars>>

\* Lines 326-345: one turn of the loop that skips its phase.
SkipPhase ==
    /\ pc = "run_phases"
    /\ Skipped(PHASES[phase_index + 1], phase_index, options, start_from_phase)
    /\ run_results' = [run_results EXCEPT !.skipped = Append(@, PHASES[phase_index + 1].id)]
    /\ phase_index' = phase_index + 1
    /\ pc' = IF phase_index + 1 = Len(PHASES) THEN "pipeline_summary" ELSE "run_phases"
    /\ UNCHANGED <<progress, options, start_from_phase, run_count>>
    /\ UNCHANGED <<parserVars, layer1Vars, batchVars, clusterVars, incrementalVars>>

\* Lines 347-359: one turn of the loop that runs its phase, which succeeds
\* or fails; a failure leaves the loop.
RunPhase ==
    /\ pc = "run_phases"
    /\ ~Skipped(PHASES[phase_index + 1], phase_index, options, start_from_phase)
    /\ \E success \in BOOLEAN :
        IF success
        THEN /\ progress' = SaveProgress(progress, PHASES[phase_index + 1].id, "SUCCESS")
             /\ run_results' = [run_results EXCEPT !.success = Append(@, PHASES[phase_index + 1].id)]
             /\ pc' = IF phase_index + 1 = Len(PHASES) THEN "pipeline_summary" ELSE "run_phases"
        ELSE /\ progress' = SaveProgress(progress, PHASES[phase_index + 1].id, "FAILED")
             /\ run_results' = [run_results EXCEPT !.failed = Append(@, PHASES[phase_index + 1].id)]
             /\ pc' = "pipeline_summary"
    /\ phase_index' = phase_index + 1
    /\ UNCHANGED <<options, start_from_phase, run_count>>
    /\ UNCHANGED <<parserVars, layer1Vars, batchVars, clusterVars, incrementalVars>>

\* Lines 361-378
ReturnRun ==
    /\ pc = "pipeline_summary"
    /\ retval' = Bool(Len(run_results.failed) = 0)
    /\ pc' = "pipeline_returned"
    /\ UNCHANGED <<doc_content, parser_format, extraction, arg>>
    /\ UNCHANGED <<parserVars, batchVars, clusterVars, pipelineVars, incrementalVars>>

NextPipeline ==
    \/ ReturnEarly
    \/ StartRun
    \/ SkipPhase
    \/ RunPhase
    \/ ReturnRun

SpecPipeline == InitPipeline /\ [][NextPipeline]_vars

\* Lines 311 and 324: enumerate(PHASES), the index of the phase of this id.
PhaseIndex(phase_id) == CHOOSE i \in 0..(Len(PHASES) - 1) : PHASES[i + 1].id = phase_id

\* The phases that run_phase was called for in the current run, in the
\* order of the calls: a failure is the last call of a run.
Executed == run_results.success \o run_results.failed

\* A run that reached the loop over the phases.
InRun == pc \in {"run_phases", "pipeline_summary", "pipeline_returned"} /\ run_results # PyNone

\* C24: after a run that stopped at a failed phase P, a run with --resume
\* skips every phase the checkpoint records as succeeded before P and starts
\* executing at P.  Stated at the start of the loop of a resumed run whose
\* checkpoint ends with a failure: every phase before P that is recorded as
\* SUCCESS is skipped.
C24_ResumeStartsAtFailedPhase ==
    (/\ pc = "run_phases"
     /\ phase_index = 0
     /\ options.resume
     /\ ProgressGet(progress, "last_status") = "FAILED")
    => \A i \in 0..(Len(PHASES) - 1) :
        (/\ i < PhaseIndex(ProgressGet(progress, "last_phase"))
         /\ ProgressGet(progress, PHASES[i + 1].id) = "SUCCESS")
        => Skipped(PHASES[i + 1], i, options, start_from_phase)

\* C29 as stated: run_pipeline returns true iff no executed phase failed,
\* for every run, the runs that end before the loop included.
C29_ReturnsTrueIffNoPhaseFailed ==
    pc = "pipeline_returned"
    => (retval = Bool(TRUE) <=> (IF run_results = PyNone THEN TRUE ELSE run_results.failed = <<>>))

\* C29: in a run that reaches the loop over the phases, the phases execute
\* in the order of PHASES, at most one phase fails and it is the last one
\* executed, nothing is executed, skipped or recorded after it, every
\* executed phase is recorded in the checkpoint as SUCCESS or FAILED, and
\* the run returns true iff no executed phase failed.
C29_PhasesRunInOrderUntilFirstFailure ==
    InRun =>
        /\ \A j \in 1..(Len(Executed) - 1) : PhaseIndex(Executed[j]) < PhaseIndex(Executed[j + 1])
        /\ Len(run_results.failed) <= 1
        /\ \A j \in 1..Len(run_results.success) :
            ProgressGet(progress, run_results.success[j]) = "SUCCESS"
        /\ run_results.failed # <<>> =>
            /\ pc # "run_phases"
            /\ phase_index = PhaseIndex(run_results.failed[1]) + 1
            /\ \A j \in 1..Len(run_results.skipped) :
                PhaseIndex(run_results.skipped[j]) < PhaseIndex(run_results.failed[1])
            /\ ProgressGet(progress, run_results.failed[1]) = "FAILED"
            /\ ProgressGet(progress, "last_phase") = run_results.failed[1]
            /\ ProgressGet(progress, "last_status") = "FAILED"
        /\ pc = "pipeline_returned" => retval = Bool(run_results.failed = <<>>)

\* A run in which B and C.0-C.1 succeeded and C.2 failed has returned false.
C29_Witness ==
    /\ pc = "pipeline_returned"
    /\ run_results # PyNone
    /\ run_results.success = <<"B", "C.0-C.1">>
    /\ run_results.failed = <<"C.2">>
    /\ retval = Bool(FALSE)

(***************************************************************************)
(* claude_logs_parser.py: parse_recent                                     *)
(*                                                                         *)
(* A log directory is a function from the names of its JSONL files to      *)
(* [age, messages]: the age of the file in days at the time of the call,   *)
(* and the number of substantial messages parse_file finds in it.          *)
(***************************************************************************)
\* Line 555: the default of min_messages.
MIN_MESSAGES == 3

\* Lines 449-452: the files of the directory sorted by modification time,
\* newest first; files of one modification time come in the order the file
\* system lists them.
FindLogFiles(dir) == {listed \in Orders(DOMAIN dir) : \A i, j \in 1..Len(listed) : i < j => dir[listed[i]].age <= dir[listed[j]].age}

\* Lines 602-606: the listed files modified after the cutoff.
RecentFiles(dir, days) == {name \in DOMAIN dir : dir[name].age < days}

\* Lines 458-546: parse_file gives no conversation for a file without
\* substantial messages.
ParseFile(dir, name) == IF dir[name].messages = 0 THEN PyNone ELSE [source_file |-> name, messages |-> dir[name].messages]

\* Lines 575-578
RECURSIVE ParseFiles(_, _, _)
ParseFiles(dir, log_files, min_messages) ==
    IF log_files = <<>> THEN <<>>
    ELSE IF ParseFile(dir, Head(log_files)) # PyNone /\ ParseFile(dir, Head(log_files)).messages >= min_messages
         THEN <<ParseFile(dir, Head(log_files))>> \o ParseFiles(dir, Tail(log_files), min_messages)
         ELSE ParseFiles(dir, Tail(log_files), min_messages)

\* Lines 570-583: parse_directory on the listing find_log_files gave; a
\* max_files of 0 is no limit.
ParseDirectory(dir, listed, max_files, min_messages) ==
    ParseFiles(dir, IF max_files # 0 THEN Take(listed, max_files) ELSE listed, min_messages)

(***************************************************************************)
(* SpecRecent: one call of parse_recent on a log directory of at most      *)
(* MaxLogs files.                                                          *)
(***************************************************************************)
MaxLogs == 2

LogNames == {<<"s", Digits[i + 1]>> : i \in 1..MaxLogs}

\* Files of today, of last week and of last month, without messages, with
\* fewer than min_messages messages and with min_messages messages.
LogFiles == [age : {0, 6, 30}, messages : {0, 2, 3}]

LogDirs == UNION {[names -> LogFiles] : names \in SUBSET LogNames}

InitRecent ==
    /\ pc = "parse_recent"
    /\ arg \in [log_dir : LogDirs, days : {1, 7}, max_conversations : 0..2]
    /\ doc_content = PyNone
    /\ parser_format = PyNone
    /\ extraction = PyNone
    /\ retval = PyNone
    /\ ParserIdle /\ BatchIdle /\ ClusterIdle /\ PipelineIdle /\ IncrementalIdle

\* Lines 585-615: parse_recent returns parse_directory(max_files =
\* max_conversations), which lists the directory again.
CallParseRecent ==
    /\ pc = "parse_recent"
    /\ pc' = "parsed_recent"
    /\ retval' \in {ParseDirectory(arg.log_dir, listed, arg.max_conversations, MIN_MESSAGES) : listed \in FindLogFiles(arg.log_dir)}
    /\ UNCHANGED <<doc_content, parser_format, extraction, arg>>
    /\ UNCHANGED <<parserVars, batchVars, clusterVars, pipelineVars, incrementalVars>>

NextRecent ==
    \/ CallParseRecent

SpecRecent == InitRecent /\ [][NextRecent]_vars

\* C25: parse_recent(days, max_conversations) returns only conversations
\* parsed from log files modified within the last `days` days, and at most
\* max_conversations of them.
C25_ParseRecentReturnsRecentOnly ==
    pc = "parsed_recent" =>
        /\ \A i \in 1..Len(retval) : retval[i].source_file \in RecentFiles(arg.log_dir, arg.days)
        /\ Len(retval) <= arg.max_conversations

(***************************************************************************)
(* parse_warnings of the extractions process_directory writes              *)
(***************************************************************************)
\* not v, for a text or None.
EmptyText(v) == v = PyNone \/ v = Str(<<>>)

\* The warnings, each with whether the field of the extraction it is about
\* is empty or unset.
Checklist(x) == <<
    <<<<"M", "i", "s", "s", "i", "n", "g", ":", " ", "m", "e", "t", "a", "d", "a", "t", "a", ".", "d", "a", "t", "e">>, EmptyText(x.metadata.date)>>,
    <<<<"M", "i", "s", "s", "i", "n", "g", ":", " ", "t", "r", "i", "g", "g", "e", "r", ".", "w", "h", "a", "t", "_", "t", "r", "i", "g", "g", "e", "r", "e", "d">>, EmptyText(x.trigger.what_triggered)>>,
    <<<<"M", "i", "s", "s", "i", "n", "g", ":", " ", "w", "o", "r", "k", "f", "l", "o", "w", ".", "h", "i", "g", "h", "_", "l", "e", "v", "e", "l", "_", "s", "t", "e", "p", "s">>, x.workflow.high_level_steps = <<>>>>,
    <<<<"E", "m", "p", "t", "y", ":", " ", "c", "o", "d", "e", "_", "w", "r", "i", "t", "t", "e", "n", ".", "b", "l", "o", "c", "k", "s">>, x.code_written.blocks = <<>>>>,
    <<<<"M", "i", "s", "s", "i", "n", "g", ":", " ", "t", "a", "g", "s", ".", "l", "a", "n", "g", "u", "a", "g", "e", "s">>, x.tags.languages = <<>>>>,
    <<<<"M", "i", "s", "s", "i", "n", "g", ":", " ", "t", "a", "g", "s", ".", "d", "o", "m", "a", "i", "n", "s">>, x.tags.domains = <<>>>>>>

HasWarning(warnings, text) == \E i \in 1..Len(warnings) : warnings[i] = text

\* C26: the extraction of every file that loads is returned and written,
\* whatever its warnings, and its parse_warnings is the checklist evaluated
\* on that extraction: each of the six warnings is present iff its field
\* of the extraction is empty or unset, and there is no other warning.
\* Stated after each turn of the loop of process_directory on a readable
\* file, about the entry and the output file of that turn.
C26_WarningsAreChecklistOfExtraction ==
    (/\ pc \in {"next_file", "results"}
     /\ file_index > 0
     /\ input_dir[srptd_files[file_index]] # Unreadable)
    => /\ results.processed # <<>>
       /\ results.processed[Len(results.processed)].source = srptd_files[file_index]
       /\ DictHas(output_dir, results.processed[Len(results.processed)].doc_id)
       /\ results.processed[Len(results.processed)].warnings = DictGet(output_dir, results.processed[Len(results.processed)].doc_id, PyNone).parse_warnings
       /\ \A k \in 1..6 :
            HasWarning(results.processed[Len(results.processed)].warnings, Checklist(DictGet(output_dir, results.processed[Len(results.processed)].doc_id, PyNone))[k][1])
            <=> Checklist(DictGet(output_dir, results.processed[Len(results.processed)].doc_id, PyNone))[k][2]
       /\ \A i \in 1..Len(results.processed[Len(results.processed)].warnings) :
            \E k \in 1..6 : results.processed[Len(results.processed)].warnings[i] = Checklist(DictGet(output_dir, results.processed[Len(results.processed)].doc_id, PyNone))[k][1]

\* process_directory has returned after writing an extraction with all six
\* warnings and one with none.
C26_Witness ==
    /\ pc = "results"
    /\ \E i \in 1..Len(retval.processed) : Len(retval.processed[i].warnings) = 6 /\ DictHas(output_dir, retval.processed[i].doc_id)
    /\ \E i \in 1..Len(retval.processed) : retval.processed[i].warnings = <<>> /\ DictHas(output_dir, retval.processed[i].doc_id)

\* The bucket files of a buckets directory and the cards they were made of.
BucketsOf(dir, cards) == {<<dir[name], card>> : name \in DOMAIN dir, card \in cards}

\* C27: in every bucket written by save_buckets and by the bucket
\* regeneration of the enrichment phase, primary_domain and primary_pattern
\* are the first domain tag and the first pattern tag, or "unknown", of the
\* cards with the bucket_key of the bucket, for every tag a card can carry,
\* tags with underscores included.
C27_BucketPrimaryTagsAreThoseOfItsKey ==
    \A pair \in BucketsOf(buckets_dir, CardsIn(doc_cards_dir)) \cup BucketsOf(enriched_buckets_dir, CardsIn(enriched_cards_dir)) :
        pair[1].bucket_key = pair[2].bucket_key
        => /\ pair[1].primary_domain = PrimaryTag(pair[2].tags.domains)
           /\ pair[1].primary_pattern = PrimaryTag(pair[2].tags.patterns)

\* The places of a doc_id in the doc_ids of a bucket.
PlacesIn(bucket, doc_id) == {i \in 1..Len(bucket.doc_ids) : bucket.doc_ids[i] = doc_id}

\* The buckets partition the cards: the doc_id of each card is once in the
\* bucket of the bucket_key of the card and in no other bucket, a bucket
\* holds doc_ids of the cards only, and its doc_count is their number.
Partitions(buckets, cards) ==
    /\ \A card \in cards :
        /\ card.bucket_key \in DOMAIN buckets
        /\ \A key \in DOMAIN buckets :
            Cardinality(PlacesIn(buckets[key], card.doc_id)) = (IF key = card.bucket_key THEN 1 ELSE 0)
    /\ \A key \in DOMAIN buckets :
        /\ buckets[key].doc_count = Len(buckets[key].doc_ids)
        /\ \A i \in 1..Len(buckets[key].doc_ids) : \E card \in cards : card.doc_id = buckets[key].doc_ids[i]

\* C28: create_buckets partitions the cards it is given, each bucket's
\* doc_count is the length of its doc_ids, and the summary save_buckets
\* writes has total_documents equal to the number of cards and
\* unknown_bucket_docs equal to the size of the bucket unknown__unknown.
C28_BucketsPartitionCards ==
    /\ pc = "save_buckets" => Partitions(retval, CardsIn(doc_cards_dir))
    /\ pc = "phase_c_done" =>
        /\ Partitions(clustering_summary.buckets, CardsIn(doc_cards_dir))
        /\ clustering_summary.statistics.total_documents = Cardinality(CardsIn(doc_cards_dir))
        /\ clustering_summary.statistics.unknown_bucket_docs =
            Cardinality({card \in CardsIn(doc_cards_dir) : card.bucket_key = S_unknown_tag \o S_key_separator \o S_unknown_tag})

\* A run has ended with two cards, one in the bucket unknown__unknown and
\* one in another bucket.
C28_Witness ==
    /\ pc = "phase_c_done"
    /\ Cardinality(CardsIn(doc_cards_dir)) = 2
    /\ clustering_summary.statistics.total_documents = 2
    /\ clustering_summary.statistics.total_buckets = 2
    /\ clustering_summary.statistics.unknown_bucket_docs = 1

(***************************************************************************)
(* phase_c_incremental_clustering.py: process_bucket.  The enriched cards  *)
(* directory maps a doc_id to its card; a cluster carries cluster_name,    *)
(* member_doc_ids, member_count, trigger_phrases, typical_outputs and      *)
(* singleton.  What the service answers is read as the value json.loads    *)
(* gives for it: a decision with the keys decision, cluster_name and       *)
(* updated_signature, each of which may be missing, or no value at all.    *)
(***************************************************************************)
\* A key the decision does not hold.
Missing == [k |-> "missing"]

\* A text json.loads rejects.
NotJson == [k |-> "not_json"]

S_new_cluster == <<"n", "e", "w", "_", "c", "l", "u", "s", "t", "e", "r">>
S_assign == <<"a", "s", "s", "i", "g", "n">>

\* decision.get(key, default)
DecisionGet(value, default) == IF value = Missing THEN default ELSE value

\* Lines 251-260, 308-317 and 323-332: a cluster of one document.
NewCluster(name, doc_id, singleton) ==
    [cluster_name |-> name, member_doc_ids |-> <<doc_id>>, member_count |-> 1,
     trigger_phrases |-> <<>>, typical_outputs |-> <<>>, singleton |-> singleton]

\* f'cluster-{len(clusters) + 1}'
DefaultName(cluster_list) == Str(<<"c", "l", "u", "s", "t", "e", "r", "-">> \o <<Digits[Len(cluster_list) + 2]>>)

\* f'singleton-{doc_id[:20]}'
SingletonName(doc_id) == Str(<<"s", "i", "n", "g", "l", "e", "t", "o", "n", "-">> \o Take(doc_id, 20))

\* Lines 320-333: the handler of an exception.
FallbackSingleton(cluster_list, doc_id) == Append(cluster_list, NewCluster(SingletonName(doc_id), doc_id, TRUE))

\* Lines 275-278: the places of the clusters of the target name.
TargetsOf(cluster_list, target_name) == {t \in 1..Len(cluster_list) : cluster_list[t].cluster_name = target_name}

\* Lines 288-291 and 294-297: the phrases of the list that are not empty
\* and were not in the list before the loop are appended.
RECURSIVE AppendNew(_, _, _)
AppendNew(target, existing, phrases) ==
    IF phrases = <<>> THEN target
    ELSE AppendNew(IF Head(phrases) # <<>> /\ Head(phrases) \notin existing THEN Append(target, Head(phrases)) ELSE target, existing, Tail(phrases))

Elements(list) == {list[i] : i \in 1..Len(list)}

\* Lines 281-283: the document joins the target cluster.
Joined(cluster_list, t, doc_id) ==
    [cluster_list EXCEPT ![t].member_doc_ids = Append(@, doc_id), ![t].member_count = @ + 1, ![t].singleton = FALSE]

\* Lines 286-297: the signature of the target cluster is updated.
SignatureUpdated(cluster_list, t, updated_sig) ==
    [cluster_list EXCEPT
        ![t].trigger_phrases = AppendNew(@, Elements(@), updated_sig.trigger_phrases),
        ![t].typical_outputs = AppendNew(@, Elements(@), updated_sig.typical_outputs)]

EmptySignature == [k |-> "dict", trigger_phrases |-> <<>>, typical_outputs |-> <<>>]

\* Lines 280-304: the target cluster was found at place t.  A signature
\* that is no dict raises at line 287, after the document has joined the
\* cluster, and the handler adds a singleton cluster.
Assigned(cluster_list, assigned, doc_id, decision, t) ==
    IF DecisionGet(decision.updated_signature, EmptySignature).k # "dict"
    THEN [clusters |-> FallbackSingleton(Joined(cluster_list, t, doc_id), doc_id), assignments |-> assigned]
    ELSE [clusters |-> SignatureUpdated(Joined(cluster_list, t, doc_id), t, DecisionGet(decision.updated_signature, EmptySignature)),
          assignments |-> Append(assigned, [doc_id |-> doc_id, decision |-> S_assign, cluster_name |-> DecisionGet(decision.cluster_name, Str(<<>>))])]

\* Lines 223-333: one document of the bucket and the answer for it.
Decide(cluster_list, assigned, doc_id, response, single) ==
    IF response \in {Raised, NotJson}
    THEN [clusters |-> FallbackSingleton(cluster_list, doc_id), assignments |-> assigned]
    ELSE IF response.decision = Str(S_new_cluster)
    THEN [clusters |-> Append(cluster_list, NewCluster(DecisionGet(response.cluster_name, DefaultName(cluster_list)), doc_id, single)),
          assignments |-> Append(assigned, [doc_id |-> doc_id, decision |-> S_new_cluster, cluster_name |-> DecisionGet(response.cluster_name, DefaultName(cluster_list))])]
    ELSE IF TargetsOf(cluster_list, DecisionGet(response.cluster_name, Str(<<>>))) # {}
    THEN Assigned(cluster_list, assigned, doc_id, response, Min(TargetsOf(cluster_list, DecisionGet(response.cluster_name, Str(<<>>)))))
    ELSE [clusters |-> Append(cluster_list, NewCluster(DecisionGet(response.cluster_name, DefaultName(cluster_list)), doc_id, FALSE)),
          assignments |-> assigned]

(***************************************************************************)
(* SpecIncremental: process_bucket on a bucket of the documents of DocIds, *)
(* some of which have no card, with every answer of the service for each   *)
(* document.                                                               *)
(***************************************************************************)
ClusterNames == {Missing, Str(<<"a">>), Str(<<"b">>)}

Signatures == {Missing, PyNone, [k |-> "dict", trigger_phrases |-> <<<<"f", "i", "x">>, <<>>>>, typical_outputs |-> <<>>]}

\* An error of the service, a text that is no JSON, and the decisions.
Decisions ==
    {Raised, NotJson}
    \cup [decision : {Str(S_new_cluster)}, cluster_name : ClusterNames, updated_signature : {Missing}]
    \cup [decision : {Str(S_assign), Missing}, cluster_name : ClusterNames, updated_signature : Signatures]

Buckets == {[bucket_key |-> S_unknown_tag \o S_key_separator \o S_unknown_tag, doc_ids |-> doc_ids] : doc_ids \in UNION {Orders(ids) : ids \in SUBSET DocIds}}

InitIncremental ==
    /\ pc = "process_bucket"
    /\ arg \in Buckets
    /\ enriched_cards_dir \in UNION {[ids -> {DocCard(id, [domains |-> <<>>, patterns |-> <<>>]) : id \in DocIds}] : ids \in SUBSET DocIds}
    /\ \A id \in DOMAIN enriched_cards_dir : enriched_cards_dir[id].doc_id = id
    /\ extractions_dir = EmptyDir
    /\ doc_cards_dir = EmptyDir
    /\ buckets_dir = EmptyDir
    /\ clustering_summary = PyNone
    /\ enriched_buckets_dir = EmptyDir
    /\ doc_content = PyNone
    /\ parser_format = PyNone
    /\ extraction = PyNone
    /\ retval = PyNone
    /\ IncrementalIdle
    /\ ParserIdle /\ BatchIdle /\ PipelineIdle

\* Lines 199-212: the result of a bucket without doc_ids is returned at
\* once; otherwise the loop starts without clusters.
StartBucket ==
    /\ pc = "process_bucket"
    /\ clusters' = <<>>
    /\ assignments' = <<>>
    /\ doc_index' = 0
    /\ IF arg.doc_ids = <<>>
       THEN /\ retval' = [bucket_key |-> arg.bucket_key, total_docs |-> 0, clusters |-> <<>>, assignments |-> <<>>]
            /\ pc' = "bucket_done"
       ELSE /\ retval' = PyNone
            /\ pc' = "next_doc"
    /\ UNCHANGED <<doc_content, parser_format, extraction, arg>>
    /\ UNCHANGED <<parserVars, batchVars, clusterVars, pipelineVars>>

\* Lines 215-218: a document whose card is not found is passed over.
SkipDoc ==
    /\ pc = "next_doc"
    /\ doc_index < Len(arg.doc_ids)
    /\ arg.doc_ids[doc_index + 1] \notin DOMAIN enriched_cards_dir
    /\ doc_index' = doc_index + 1
    /\ UNCHANGED <<pc, clusters, assignments>>
    /\ UNCHANGED <<parserVars, layer1Vars, batchVars, clusterVars, pipelineVars>>

\* Lines 220-333: one turn of the loop for a document with a card.
ClusterDoc ==
    /\ pc = "next_doc"
    /\ doc_index < Len(arg.doc_ids)
    /\ arg.doc_ids[doc_index + 1] \in DOMAIN enriched_cards_dir
    /\ \E response \in Decisions :
        /\ clusters' = Decide(clusters, assignments, arg.doc_ids[doc_index + 1], response, Len(arg.doc_ids) = 1).clusters
        /\ assignments' = Decide(clusters, assignments, arg.doc_ids[doc_index + 1], response, Len(arg.doc_ids) = 1).assignments
    /\ doc_index' = doc_index + 1
    /\ UNCHANGED pc
    /\ UNCHANGED <<parserVars, layer1Vars, batchVars, clusterVars, pipelineVars>>

\* Lines 335-336
ReturnBucket ==
    /\ pc = "next_doc"
    /\ doc_index = Len(arg.doc_ids)
    /\ retval' = [bucket_key |-> arg.bucket_key, total_docs |-> Len(arg.doc_ids), clusters |-> clusters, assignments |-> assignments]
    /\ pc' = "bucket_done"
    /\ UNCHANGED <<doc_content, parser_format, extraction, arg>>
    /\ UNCHANGED <<parserVars, batchVars, clusterVars, pipelineVars, incrementalVars>>

NextIncremental ==
    \/ StartBucket
    \/ SkipDoc
    \/ ClusterDoc
    \/ ReturnBucket

SpecIncremental == InitIncremental /\ [][NextIncremental]_vars

\* The places of a doc_id in the members of a cluster.
MemberPlaces(cluster, doc_id) == {i \in 1..Len(cluster.member_doc_ids) : cluster.member_doc_ids[i] = doc_id}

\* C30: after process_bucket, whatever the service answered, every document
\* of the bucket whose card could be loaded is a member of exactly one
\* cluster of the result, and the member_count of each cluster is the
\* length of its member_doc_ids.
C30_EachDocumentInExactlyOneCluster ==
    pc = "bucket_done" =>
        /\ \A i \in 1..Len(arg.doc_ids) :
            arg.doc_ids[i] \in DOMAIN enriched_cards_dir
            => Cardinality({c \in 1..Len(retval.clusters) : MemberPlaces(retval.clusters[c], arg.doc_ids[i]) # {}}) = 1
        /\ \A c \in 1..Len(retval.clusters) : retval.clusters[c].member_count = Len(retval.clusters[c].member_doc_ids)

====
